---- MODULE Spec2Model ----
(***************************************************************************)
(* The IIR filter box of pymoku (src/pymoku/_iirfilterbox.py) as a state   *)
(* machine: the host-side instrument object (remembered user settings,     *)
(* coefficient tables, pending and committed register images), the scratch *)
(* payload file, and the transport events every call produces.             *)
(*                                                                         *)
(* Numbers.  Python floats are modelled on exact grids:                    *)
(*   - filter coefficients and the gain G in sixteenths (1.0 = CoefOne),   *)
(*     drawn from multiples of 1/4 so that s*b is exact;                   *)
(*   - user scales, gains and offsets in tenths (1.0 = UserOne);           *)
(*   - a 48-bit payload word w is held as w / 2^WordShift, exact for every *)
(*     value on the coefficient grid.                                      *)
(***************************************************************************)
EXTENDS Integers, Sequences, FiniteSets, TLC

VARIABLES
    cfg,         \* the _matrixscale_* / _input_* / _output_* fields (tenths)
    filter_ch,   \* filter_ch[1], filter_ch[2]: stored tables, <<>> = attribute not set
    localregs,   \* _localregs: register -> staged image (domain = pending write set)
    remoteregs,  \* _remoteregs: register -> image last committed
    scratch,     \* TRUE iff the scratch file '.data.dat' exists
    coeffmem,    \* device coefficient memory: words of the last completed upload
    wire,        \* transport events of the last call, in order
    ret,         \* the last call: operation, arguments, outcome, call number
    cx           \* context of a codec, scale or table experiment; the frame in flight

vars == <<cfg, filter_ch, localregs, remoteregs, scratch, coeffmem, wire, ret, cx>>

---------------------------------------------------------------------------
(* Arithmetic helpers *)

Abs(x) == IF x < 0 THEN -x ELSE x

\* round(p / q) for q > 0, ties to even (Python 3 round)
RoundDiv(p, q) ==
    LET f == p \div q
        r == p % q
    IN  IF 2 * r < q THEN f
        ELSE IF 2 * r > q THEN f + 1
        ELSE IF f % 2 = 0 THEN f ELSE f + 1

\* bit field [off, off+len) of a register image
Field(img, off, len) == (img \div (2 ^ off)) % (2 ^ len)

\* (old & ~mask) | (v << off)
SetField(img, off, len, v) == img - Field(img, off, len) * (2 ^ off) + v * (2 ^ off)

---------------------------------------------------------------------------
(* Register addresses, src/pymoku/_iirfilterbox.py:12-28 *)

REG_ENABLE           == 96
REG_MONSELECT        == 111
REG_INPUTOFFSET_CH0  == 112
REG_INPUTOFFSET_CH1  == 113
REG_OUTPUTOFFSET_CH0 == 114
REG_OUTPUTOFFSET_CH1 == 115
REG_CH0_CH0GAIN      == 116
REG_CH0_CH1GAIN      == 117
REG_CH1_CH0GAIN      == 118
REG_CH1_CH1GAIN      == 119
REG_INPUTSCALE_CH0   == 120
REG_INPUTSCALE_CH1   == 121
REG_OUTPUTSCALE_CH0  == 122
REG_OUTPUTSCALE_CH1  == 123
REG_SAMPLINGFREQ     == 124
REG_FILT_RESET       == 62
IIR_COEFFWIDTH       == 48
ADC_DEFAULT_CALIBRATION == 3750

\* register bases of the two decimation filters (DecFilter(self, 103 / 107))
REG_DECFILTER1 == 103
REG_DECFILTER2 == 107

\* base-class registers (pymoku/_instrument.py)
REG_AINCTL      == 13
REG_MMAP_ACCESS == 61

Regs == { REG_ENABLE, REG_MONSELECT, REG_INPUTOFFSET_CH0, REG_INPUTOFFSET_CH1,
          REG_OUTPUTOFFSET_CH0, REG_OUTPUTOFFSET_CH1, REG_CH0_CH0GAIN,
          REG_CH0_CH1GAIN, REG_CH1_CH0GAIN, REG_CH1_CH1GAIN, REG_INPUTSCALE_CH0,
          REG_INPUTSCALE_CH1, REG_OUTPUTSCALE_CH0, REG_OUTPUTSCALE_CH1,
          REG_SAMPLINGFREQ, REG_FILT_RESET, REG_DECFILTER1, REG_DECFILTER2,
          REG_AINCTL, REG_MMAP_ACCESS }

---------------------------------------------------------------------------
(* Number grids *)

\* user values are given to one decimal place (the quantization warning of
\* set_control_matrix): 1.0 on the user grid
UserOne   == 10
\* binary places kept of a coefficient: 4 gives the grid of sixteenths
CoefBits  == 4
CoefOne   == 2 ^ CoefBits \* 1.0 on the coefficient grid
WordShift == IIR_COEFFWIDTH - 24 - CoefBits  \* a payload word w is held as w / 2^WordShift

---------------------------------------------------------------------------
(* Frontend and calibration (base class, pymoku/_instrument.py) *)

\* relay bits of one channel: DC coupling, 50 Ohm, attenuation
RELAY_DC   == 1
RELAY_LOWZ == 2
RELAY_LOWG == 4

\* set_frontend's relay word for (fiftyr, atten, ac)
RelayWord(fiftyr, atten, ac) ==
    (IF fiftyr THEN RELAY_LOWZ ELSE 0) + (IF atten THEN RELAY_LOWG ELSE 0)
      + (IF ac THEN 0 ELSE RELAY_DC)

\* the register image an attribute read sees: staged if pending, else committed
Live(local, remote, reg) == IF reg \in DOMAIN local THEN local[reg] ELSE remote[reg]

\* get_frontend(ch)[1]: the attenuation flag of channel ch
Atten(local, remote, ch) ==
    Field(Live(local, remote, REG_AINCTL), 3 * (ch - 1) + 2, 1) = 1

\* the frontend state the codecs read: attenuation of channel 1 and 2
Frontend(local, remote) == << Atten(local, remote, 1), Atten(local, remote, 2) >>

AttenDiv(att) == IF att THEN 10 ELSE 1

\* ADC calibration in bits per volt for a frontend attenuation state;
\* _adc_gains() returns its reciprocal (volts per bit)
AdcCal(att) == IF att THEN 380 ELSE 3600

\* DAC calibration in bits per volt; _dac_gains() returns its reciprocal
DacCal == 30000

---------------------------------------------------------------------------
(* The register table _iir_reg_handlers, and the base-class attributes    *)
(* the instrument uses                                                    *)

Attr == [
    mon1_source         |-> [reg |-> REG_MONSELECT,        off |-> 0, len |-> 3,  sgn |-> FALSE],
    mon2_source         |-> [reg |-> REG_MONSELECT,        off |-> 3, len |-> 3,  sgn |-> FALSE],
    input_en1           |-> [reg |-> REG_ENABLE,           off |-> 0, len |-> 1,  sgn |-> FALSE],
    input_en2           |-> [reg |-> REG_ENABLE,           off |-> 1, len |-> 1,  sgn |-> FALSE],
    output_en1          |-> [reg |-> REG_ENABLE,           off |-> 2, len |-> 1,  sgn |-> FALSE],
    output_en2          |-> [reg |-> REG_ENABLE,           off |-> 3, len |-> 1,  sgn |-> FALSE],
    matrixscale_ch1_ch1 |-> [reg |-> REG_CH0_CH0GAIN,      off |-> 0, len |-> 16, sgn |-> TRUE],
    matrixscale_ch1_ch2 |-> [reg |-> REG_CH0_CH1GAIN,      off |-> 0, len |-> 16, sgn |-> TRUE],
    matrixscale_ch2_ch1 |-> [reg |-> REG_CH1_CH0GAIN,      off |-> 0, len |-> 16, sgn |-> TRUE],
    matrixscale_ch2_ch2 |-> [reg |-> REG_CH1_CH1GAIN,      off |-> 0, len |-> 16, sgn |-> TRUE],
    ch1_sampling_freq   |-> [reg |-> REG_SAMPLINGFREQ,     off |-> 0, len |-> 1,  sgn |-> FALSE],
    ch2_sampling_freq   |-> [reg |-> REG_SAMPLINGFREQ,     off |-> 1, len |-> 1,  sgn |-> FALSE],
    filter_reset        |-> [reg |-> REG_FILT_RESET,       off |-> 0, len |-> 1,  sgn |-> FALSE],
    input_scale1        |-> [reg |-> REG_INPUTSCALE_CH0,   off |-> 0, len |-> 18, sgn |-> TRUE],
    input_scale2        |-> [reg |-> REG_INPUTSCALE_CH1,   off |-> 0, len |-> 18, sgn |-> TRUE],
    output_scale1       |-> [reg |-> REG_OUTPUTSCALE_CH0,  off |-> 0, len |-> 18, sgn |-> TRUE],
    output_scale2       |-> [reg |-> REG_OUTPUTSCALE_CH1,  off |-> 0, len |-> 18, sgn |-> TRUE],
    input_offset1       |-> [reg |-> REG_INPUTOFFSET_CH0,  off |-> 0, len |-> 14, sgn |-> TRUE],
    input_offset2       |-> [reg |-> REG_INPUTOFFSET_CH1,  off |-> 0, len |-> 14, sgn |-> TRUE],
    output_offset1      |-> [reg |-> REG_OUTPUTOFFSET_CH0, off |-> 0, len |-> 17, sgn |-> TRUE],
    output_offset2      |-> [reg |-> REG_OUTPUTOFFSET_CH1, off |-> 0, len |-> 17, sgn |-> TRUE] ]

IirAttrs == DOMAIN Attr

BaseAttr == [
    relays_ch1   |-> [reg |-> REG_AINCTL,      off |-> 0, len |-> 3,  sgn |-> FALSE],
    relays_ch2   |-> [reg |-> REG_AINCTL,      off |-> 3, len |-> 3,  sgn |-> FALSE],
    mmap_access  |-> [reg |-> REG_MMAP_ACCESS, off |-> 0, len |-> 1,  sgn |-> FALSE],
    dec_factor1  |-> [reg |-> REG_DECFILTER1,  off |-> 0, len |-> 11, sgn |-> FALSE],
    dec_factor2  |-> [reg |-> REG_DECFILTER2,  off |-> 0, len |-> 11, sgn |-> FALSE] ]

AttrOf(a) == IF a \in DOMAIN Attr THEN Attr[a] ELSE BaseAttr[a]

\* the attributes whose encoding transform is not the identity
ScaledAttrs == { "matrixscale_ch1_ch1", "matrixscale_ch1_ch2", "matrixscale_ch2_ch1",
                 "matrixscale_ch2_ch2", "input_scale1", "input_scale2",
                 "output_scale1", "output_scale2", "input_offset1", "input_offset2",
                 "output_offset1", "output_offset2" }

\* The to_reg xform of attribute a: value x (tenths for scaled attributes,
\* the raw integer otherwise) to the integer to store; fe = Frontend.
Xform(a, x, fe) ==
    CASE a \in {"matrixscale_ch1_ch1", "matrixscale_ch2_ch1"} ->
            RoundDiv(x * ADC_DEFAULT_CALIBRATION * (2 ^ 10),
                     UserOne * AttenDiv(fe[1]) * AdcCal(fe[1]))
      [] a \in {"matrixscale_ch1_ch2", "matrixscale_ch2_ch2"} ->
            RoundDiv(x * ADC_DEFAULT_CALIBRATION * (2 ^ 10),
                     UserOne * AttenDiv(fe[2]) * AdcCal(fe[2]))
      [] a \in {"input_scale1", "input_scale2"} ->
            RoundDiv(x * (2 ^ 9), UserOne)
      [] a \in {"output_scale1", "output_scale2"} ->
            \* x * 2^9 / (cal * 2^3 * dac_gain), dac_gain = 1 / DacCal
            RoundDiv(x * (2 ^ 6) * DacCal, UserOne * ADC_DEFAULT_CALIBRATION)
      [] a = "input_offset1" ->
            RoundDiv(2 * x * ADC_DEFAULT_CALIBRATION, UserOne * AttenDiv(fe[1]))
      [] a = "input_offset2" ->
            RoundDiv(2 * x * ADC_DEFAULT_CALIBRATION, UserOne * AttenDiv(fe[2]))
      [] a \in {"output_offset1", "output_offset2"} ->
            RoundDiv(x * DacCal, UserOne)
      [] OTHER -> x

\* _sgn / _usgn: does the integer fit the field
Fits(a, v) ==
    IF AttrOf(a).sgn
    THEN v >= -(2 ^ (AttrOf(a).len - 1)) /\ v < 2 ^ (AttrOf(a).len - 1)
    ELSE v >= 0 /\ v < 2 ^ AttrOf(a).len

\* the bit pattern of a fitting integer (two's complement when signed)
Pattern(a, v) == IF v >= 0 THEN v ELSE 2 ^ AttrOf(a).len + v

EncodeOk(a, x, fe) == Fits(a, Xform(a, x, fe))
Encode(a, x, fe)   == Pattern(a, Xform(a, x, fe))

\* sign extension of a field's bit pattern
SignExtend(a, raw) ==
    IF AttrOf(a).sgn /\ raw >= 2 ^ (AttrOf(a).len - 1) THEN raw - 2 ^ AttrOf(a).len ELSE raw

\* The from_reg xform of attribute a is linear: decoded = n * num / den (in
\* tenths for scaled attributes).  DecodeRatio gives <<num, den>>.
DecodeRatio(a, fe) ==
    CASE a \in {"matrixscale_ch1_ch1", "matrixscale_ch2_ch1"} ->
            << UserOne * AttenDiv(fe[1]) * AdcCal(fe[1]), ADC_DEFAULT_CALIBRATION * (2 ^ 10) >>
      [] a \in {"matrixscale_ch1_ch2", "matrixscale_ch2_ch2"} ->
            << UserOne * AttenDiv(fe[2]) * AdcCal(fe[2]), ADC_DEFAULT_CALIBRATION * (2 ^ 10) >>
      [] a \in {"input_scale1", "input_scale2"} -> << UserOne, 2 ^ 9 >>
      [] a \in {"output_scale1", "output_scale2"} ->
            << UserOne * ADC_DEFAULT_CALIBRATION, (2 ^ 6) * DacCal >>
      [] a \in {"output_offset1", "output_offset2"} -> << UserOne, DacCal >>
      [] OTHER -> << 1, 1 >>

\* The from_reg xforms of input_offset1 and input_offset2 read
\* obj.get_frontend(ch) with no name ch in scope: evaluating them raises.
DecodeRaises(a) == a \in {"input_offset1", "input_offset2"}

\* Reading attribute a from field pattern raw: [ok, num, den] with the
\* decoded value num / den, or ok = FALSE when the xform raises.
Decode(a, raw, fe) ==
    IF DecodeRaises(a)
    THEN [ok |-> FALSE, num |-> 0, den |-> 1]
    ELSE [ok |-> TRUE, num |-> SignExtend(a, raw) * DecodeRatio(a, fe)[1],
          den |-> DecodeRatio(a, fe)[2]]

\* __setattr__ of a register attribute: merge the field into the live image
\* of its register and stage the result
StageField(local, remote, d, pattern) ==
    (d.reg :> SetField(Live(local, remote, d.reg), d.off, d.len, pattern)) @@ local

Stage(local, remote, a, pattern) == StageField(local, remote, AttrOf(a), pattern)

\* __getattr__ of a register attribute: the field of the live image
Get(local, remote, a) ==
    Field(Live(local, remote, AttrOf(a).reg), AttrOf(a).off, AttrOf(a).len)


---------------------------------------------------------------------------
(* Coefficient tables: a table is a sequence of rows, a row a sequence of  *)
(* numbers in sixteenths.  Row(...) builds a six-entry section row.        *)

Row(s, b0, b1, b2, a1, a2) == << s, b0, b1, b2, a1, a2 >>

Q == CoefOne \div 4     \* 0.25 on the coefficient grid

AllPassRow == Row(4 * Q, 4 * Q, 0, 0, 0, 0)

\* The tables callers pass to set_filter: well-formed ones (shared_rows is
\* [[2.0], b, b, b, b], its four section rows one list), every shape error
\* the dimension check distinguishes, and out-of-range entries (in
\* row4_tail_big the seventh entry of the last row is 4.0).
Tables == [
    sections  |-> << << 8 * Q >>,
                     Row(2 * Q,  4 * Q, 8 * Q, 4 * Q, -6 * Q, 2 * Q),
                     Row(8 * Q,  2 * Q, -2 * Q, Q, 0, -3 * Q),
                     Row(4 * Q,  Q, 2 * Q, 3 * Q, 5 * Q, -15 * Q),
                     Row(-4 * Q, 4 * Q, -8 * Q, 12 * Q, 15 * Q, -16 * Q) >>,
    steep     |-> << << 4 * Q >>,
                     Row(12 * Q, 12 * Q, 4 * Q, 0, 0, 0),
                     AllPassRow, AllPassRow, AllPassRow >>,
    four_rows |-> << << 4 * Q >>, AllPassRow, AllPassRow, AllPassRow >>,
    row0_long |-> << << 4 * Q, 4 * Q >>, AllPassRow, AllPassRow, AllPassRow, AllPassRow >>,
    row2_short |-> << << 4 * Q >>, AllPassRow, << 4 * Q, 4 * Q, 0, 0, 0 >>, AllPassRow, AllPassRow >>,
    row4_short |-> << << 4 * Q >>, AllPassRow, AllPassRow, AllPassRow, << 4 * Q, 4 * Q, 0, 0, 0 >> >>,
    row4_long  |-> << << 4 * Q >>, AllPassRow, AllPassRow, AllPassRow,
                      << 4 * Q, 4 * Q, 0, 0, 0, 0, 8 * Q >> >>,
    row4_tail_big |-> << << 4 * Q >>, AllPassRow, AllPassRow, AllPassRow,
                         << 4 * Q, 4 * Q, 0, 0, 0, 0, 16 * Q >> >>,
    shared_rows |-> << << 8 * Q >>, AllPassRow, AllPassRow, AllPassRow, AllPassRow >>,
    gain_big  |-> << << 8000000 * CoefOne >>, AllPassRow, AllPassRow, AllPassRow, AllPassRow >>,
    coef_big  |-> << << 4 * Q >>, AllPassRow, AllPassRow, AllPassRow,
                     Row(4 * Q, 4 * Q, 0, 0, 0, 16 * Q) >> ]

TableNames == DOMAIN Tables

\* check_parameter_valid('range', v, [-8e6, 8e6 - 2**(-24)]): on the grid
\* the upper limit admits exactly the values below 8e6
GainInRange(v) == v >= -8000000 * CoefOne /\ v < 8000000 * CoefOne

\* check_parameter_valid('range', v, [-4.0, 4.0 - 2**(-45)]): on the grid
\* the upper limit admits exactly the values below 4.0
CoefInRange(v) == v >= -4 * CoefOne /\ v < 4 * CoefOne

\* the rows the dimension check looks at: for m in range(4)
DimCheckedRows == 0 .. 3

\* The checks of set_filter on a table that is not None, in the order the
\* code makes them; the outcome is "ok" or the exception raised.
Validate(t) ==
    IF Len(t) # 5 THEN "ValidationError"
    ELSE IF \E m \in DimCheckedRows :
              Len(t[m + 1]) # (IF m = 0 THEN 1 ELSE 6) THEN "ValidationError"
    ELSE IF ~GainInRange(t[1][1]) THEN "ValidationError"
    ELSE LET Missing(p) == (p % 6) + 1 > Len(t[(p \div 6) + 2])
             bad == { p \in 0 .. 23 :
                        Missing(p) \/ ~CoefInRange(t[(p \div 6) + 2][(p % 6) + 1]) }
         IN  IF bad = {} THEN "ok"
             ELSE LET p == CHOOSE q \in bad : \A r \in bad : q <= r
                  IN  IF Missing(p) THEN "IndexError" ELSE "ValidationError"

\* s * b on the coefficient grid
Mul(a, b) == (a * b) \div CoefOne

\* The list objects of a table: position -> object.  Positions with one
\* object are one Python list, as in t = [[G], b, b, b, b]; deepcopy (line
\* 215) keeps the sharing.
RowObject(name) ==
    IF name = "shared_rows" THEN << 0, 1, 1, 1, 1 >> ELSE << 0, 1, 2, 3, 4 >>

\* the copied table as objects: object -> its entries
Heap(t, obj) ==
    [ o \in { obj[i] : i \in 1 .. 5 } |-> t[CHOOSE i \in 1 .. 5 : obj[i] = o] ]

\* lines 237-240 on one row: b0, b1, b2 *= s, then s = 1.0
ScaleRow(r) ==
    << CoefOne, Mul(r[2], r[1]), Mul(r[3], r[1]), Mul(r[4], r[1]) >> \o SubSeq(r, 5, Len(r))

\* lines 236-240: for n in range(1, 5), on the row object at position n
RECURSIVE ScaleRows(_, _, _)
ScaleRows(h, obj, n) ==
    IF n > 4 THEN h
    ELSE ScaleRows([h EXCEPT ![obj[n + 1]] = ScaleRow(@)], obj, n + 1)

\* line 243: intermediate_filter[4][0] = intermediate_filter[0][0]
GainIntoLast(h, obj) == [h EXCEPT ![obj[5]][1] = h[obj[1]][1]]

\* line 244: intermediate_filter[1:5]
Sections(h, obj) == [ k \in 1 .. 4 |-> h[obj[k + 1]] ]

\* Lines 215, 235-244: on a deep copy, multiply s into b0, b1, b2, set s to
\* 1.0, put G into the s slot of section 4, drop the gain row.
Reshape(t, obj) ==
    Sections(GainIntoLast(ScaleRows(Heap(t, obj), obj, 1), obj), obj)

\* set_defaults' all-pass table [b, b, b, b]
DefaultFilter == << AllPassRow, AllPassRow, AllPassRow, AllPassRow >>

\* int(round(2**(48 - 24) * c)) for a gain slot (y = 0) and
\* int(round(2**(48 - 3) * c)) otherwise, held as word / 2^WordShift
CoeffWord(y, c) ==
    IF y = 0 THEN c * 2 ^ (IIR_COEFFWIDTH - 24 - CoefBits - WordShift)
    ELSE c * 2 ^ (IIR_COEFFWIDTH - 3 - CoefBits - WordShift)

\* component outermost, then channel, then row
ComponentMajor(k, y, x) == (y * 2 + k) * 4 + x

\* position in the file of coeff_list[x][y][k]: the write loops run over the
\* channel k, then the component y, then the row x
PackIndex(k, y, x) == (k * 6 + y) * 4 + x

\* the <<k, y, x>> written at each file position 1 .. 48
PackOrder ==
    [ i \in 1 .. 48 |->
        CHOOSE u \in (0 .. 1) \X (0 .. 5) \X (0 .. 3) : PackIndex(u[1], u[2], u[3]) = i - 1 ]

\* Lines 251-269: the words written to '.data.dat', in file order.
\* f[1], f[2] are the stored tables of channel 1 and 2.
Payload(f) ==
    LET fc == [ x \in 1 .. 4 |-> f[1][x] \o f[2][x] ]
    IN  [ i \in 1 .. 48 |->
            LET t == PackOrder[i]
            IN  CoeffWord(t[2], fc[t[3] + 1][t[2] + t[1] * 6 + 1]) ]


---------------------------------------------------------------------------
(* Staging and commit (base class, pymoku/_instrument.py) *)

EmptyRegs == [ r \in {} |-> 0 ]

\* stage a sequence of <<attribute, pattern>> pairs, in order
RECURSIVE StageSeq(_, _, _)
StageSeq(local, remote, seq) ==
    IF seq = << >> THEN local
    ELSE StageSeq(Stage(local, remote, Head(seq)[1], Head(seq)[2]), remote, Tail(seq))

\* _update_control_matrix_regs: restage the four mixing registers from the
\* remembered user values, encoded with the frontend state live right now
ControlMatrixRegs(local, remote, c, fe) ==
        StageSeq(local, remote,
          << << "matrixscale_ch1_ch1", Encode("matrixscale_ch1_ch1", c.matrixscale_ch1_ch1, fe) >>,
             << "matrixscale_ch1_ch2", Encode("matrixscale_ch1_ch2", c.matrixscale_ch1_ch2, fe) >>,
             << "matrixscale_ch2_ch1", Encode("matrixscale_ch2_ch1", c.matrixscale_ch2_ch1, fe) >>,
             << "matrixscale_ch2_ch2", Encode("matrixscale_ch2_ch2", c.matrixscale_ch2_ch2, fe) >> >>)

UpdateControlMatrixRegs(local, remote, c) ==
    ControlMatrixRegs(local, remote, c, Frontend(local, remote))

\* _update_gains_offsets_regs: likewise for the eight scale/offset registers
GainsOffsetsRegs(local, remote, c, fe) ==
        StageSeq(local, remote,
          << << "input_scale1",   Encode("input_scale1",   c.input_scale1,   fe) >>,
             << "output_scale1",  Encode("output_scale1",  c.output_scale1,  fe) >>,
             << "input_offset1",  Encode("input_offset1",  c.input_offset1,  fe) >>,
             << "output_offset1", Encode("output_offset1", c.output_offset1, fe) >>,
             << "input_scale2",   Encode("input_scale2",   c.input_scale2,   fe) >>,
             << "output_scale2",  Encode("output_scale2",  c.output_scale2,  fe) >>,
             << "input_offset2",  Encode("input_offset2",  c.input_offset2,  fe) >>,
             << "output_offset2", Encode("output_offset2", c.output_offset2, fe) >> >>)

UpdateGainsOffsetsRegs(local, remote, c) ==
    GainsOffsetsRegs(local, remote, c, Frontend(local, remote))

\* a commit that sends the staged registers as they are
KeepStaged(local, remote, c) == local

\* _update_dependent_regs, run by every commit before it serialises
UpdateDependentRegs(local, remote, c) ==
    UpdateGainsOffsetsRegs(UpdateControlMatrixRegs(local, remote, c), remote, c)

\* the register images the host holds after a successful write of `writes`
Merged(writes, remote) == [ r \in Regs |-> Live(writes, remote, r) ]

\* transport events
RegsEvent(writes, ok)  == [kind |-> "regs", writes |-> writes, words |-> << >>, ok |-> ok]
FileEvent(words, ok)   == [kind |-> "file", writes |-> EmptyRegs, words |-> words, ok |-> ok]

\* _set_mmap_access(access): stage the flag, then commit at once
MmapStage(local, remote, access) ==
    Stage(local, remote, "mmap_access", IF access THEN 1 ELSE 0)

---------------------------------------------------------------------------
(* State after construction (__init__, lines 82-115); the instrument is   *)
(* attached to a device whose registers read zero.                        *)

CfgFields == ScaledAttrs

Init ==
    /\ cfg = [ a \in CfgFields |-> 0 ]
    /\ filter_ch = << << >>, << >> >>
    /\ localregs = EmptyRegs
    /\ remoteregs = [ r \in Regs |-> 0 ]
    /\ scratch = FALSE
    /\ coeffmem = << >>
    /\ wire = << >>
    /\ ret = [op |-> "init", args |-> << >>, outcome |-> "ok", seq |-> 0]
    /\ cx = [phase |-> "idle"]

\* the record of a finished call; seq numbers the calls made on the instrument
Returned(op, args, outcome) ==
    [op |-> op, args |-> args, outcome |-> outcome, seq |-> ret.seq + 1]

---------------------------------------------------------------------------
(* Setters.  @needs_commit setters stage; commit() is the caller's (or the *)
(* decorator's) separate call.                                             *)

\* a setter that leaves the stored scales alone
MatrixKeep(c, ch, scale_in1, scale_in2) == c

\* the assignments of set_control_matrix, lines 173-178
MatrixAssign(c, ch, scale_in1, scale_in2) ==
    IF ch = 1
    THEN [c EXCEPT !.matrixscale_ch1_ch1 = scale_in1, !.matrixscale_ch1_ch2 = scale_in2]
    ELSE [c EXCEPT !.matrixscale_ch2_ch1 = scale_in1, !.matrixscale_ch2_ch2 = scale_in2]

\* a check of the channel alone
ChannelValid(ch, scale_in1, scale_in2) == ch \in {1, 2}

\* the range checks of set_control_matrix, lines 167-169
MatrixArgsValid(ch, scale_in1, scale_in2) ==
    /\ ch \in {1, 2}
    /\ scale_in1 >= -20 * UserOne /\ scale_in1 <= 20 * UserOne
    /\ scale_in2 >= -20 * UserOne /\ scale_in2 <= 20 * UserOne

\* the assignments of set_gains_offsets, lines 328-337
GainsAssign(c, ch, ig, og, io, oo) ==
    IF ch = 1
    THEN [c EXCEPT !.input_scale1 = ig, !.output_scale1 = og,
                   !.input_offset1 = io, !.output_offset1 = oo]
    ELSE [c EXCEPT !.input_scale2 = ig, !.output_scale2 = og,
                   !.input_offset2 = io, !.output_offset2 = oo]

\* a check of the channel alone
ChannelOnly(ch, ig, og, io, oo) == ch \in {1, 2}

\* the values of omitted arguments, line 301
DefaultGain   == UserOne
DefaultOffset == 0

\* the range checks of set_gains_offsets, lines 321-325
GainsArgsValid(ch, ig, og, io, oo) ==
    /\ ch \in {1, 2}
    /\ ig >= -100 * UserOne /\ ig <= 100 * UserOne
    /\ og >= -100 * UserOne /\ og <= 100 * UserOne
    /\ io >= -UserOne /\ io <= UserOne
    /\ oo >= -2 * UserOne /\ oo <= 2 * UserOne

set_control_matrix(ch, scale_in1, scale_in2) ==
    /\ IF MatrixArgsValid(ch, scale_in1, scale_in2)
       THEN /\ cfg' = MatrixAssign(cfg, ch, scale_in1, scale_in2)
            /\ ret' = Returned("set_control_matrix", << ch, scale_in1, scale_in2 >>, "ok")
       ELSE /\ cfg' = cfg
            /\ ret' = Returned("set_control_matrix", << ch, scale_in1, scale_in2 >>,
                               "ValidationError")
    /\ wire' = << >>
    /\ UNCHANGED << filter_ch, localregs, remoteregs, scratch, coeffmem, cx >>

set_gains_offsets(ch, ig, og, io, oo) ==
    /\ IF GainsArgsValid(ch, ig, og, io, oo)
       THEN /\ cfg' = GainsAssign(cfg, ch, ig, og, io, oo)
            /\ ret' = Returned("set_gains_offsets", << ch, ig, og, io, oo >>, "ok")
       ELSE /\ cfg' = cfg
            /\ ret' = Returned("set_gains_offsets", << ch, ig, og, io, oo >>,
                               "ValidationError")
    /\ wire' = << >>
    /\ UNCHANGED << filter_ch, localregs, remoteregs, scratch, coeffmem, cx >>

\* set_frontend(ch, fiftyr, atten, ac) of the base class: stage the relay word
set_frontend(ch, fiftyr, atten, ac) ==
    /\ localregs' = Stage(localregs, remoteregs,
                          IF ch = 1 THEN "relays_ch1" ELSE "relays_ch2",
                          RelayWord(fiftyr, atten, ac))
    /\ ret' = Returned("set_frontend", << ch, atten >>, "ok")
    /\ wire' = << >>
    /\ UNCHANGED << cfg, filter_ch, remoteregs, scratch, coeffmem, cx >>

\* monitor source codes, lines 30-36
IIR_MON_NONE == 0
IIR_MON_ADC1 == 1
IIR_MON_IN1  == 2
IIR_MON_OUT1 == 3
IIR_MON_ADC2 == 4
IIR_MON_IN2  == 5
IIR_MON_OUT2 == 6

\* the dictionary sources of set_monitor, lines 380-388
MonSources ==
    [ none |-> IIR_MON_NONE, adc1 |-> IIR_MON_ADC1, in1 |-> IIR_MON_IN1,
      out1 |-> IIR_MON_OUT1, adc2 |-> IIR_MON_ADC2, in2 |-> IIR_MON_IN2,
      out2 |-> IIR_MON_OUT2 ]

\* a check of the source alone
SourceValid(ch, source) ==
    source \in {"adc1", "in1", "out1", "adc2", "in2", "out2"}

\* the checks of set_monitor, lines 374-378
MonitorArgsValid(ch, source) ==
    /\ ch \in {"a", "b"}
    /\ source \in {"adc1", "in1", "out1", "adc2", "in2", "out2"}

\* a monitor channel's attribute is always the first one
AlwaysMon1(ch) == "mon1_source"

\* lines 393-396: the attribute set_monitor writes
MonitorAttr(ch) == IF ch = "a" THEN "mon1_source" ELSE "mon2_source"

\* set_monitor, lines 350-396
set_monitor(ch, source) ==
    /\ IF MonitorArgsValid(ch, source)
       THEN /\ localregs' = Stage(localregs, remoteregs, MonitorAttr(ch), MonSources[source])
            /\ ret' = Returned("set_monitor", << ch, source >>, "ok")
       ELSE /\ localregs' = localregs
            /\ ret' = Returned("set_monitor", << ch, source >>, "ValidationError")
    /\ wire' = << >>
    /\ UNCHANGED << cfg, filter_ch, remoteregs, scratch, coeffmem, cx >>

\* disable_output, lines 287-298: no check of ch; any ch but 1 is channel 2
disable_output(ch) ==
    /\ localregs' = Stage(localregs, remoteregs,
                          IF ch = 1 THEN "output_en1" ELSE "output_en2", 0)
    /\ ret' = Returned("disable_output", << ch >>, "ok")
    /\ wire' = << >>
    /\ UNCHANGED << cfg, filter_ch, remoteregs, scratch, coeffmem, cx >>

\* the four enable attributes of REG_ENABLE, lines 484-487
EnableAttrs == { "input_en1", "input_en2", "output_en1", "output_en2" }

\* assignment to one enable attribute (instrument.output_en1 = True, ...)
write_enable(a, v) ==
    /\ localregs' = Stage(localregs, remoteregs, a, IF v THEN 1 ELSE 0)
    /\ ret' = Returned("write_enable", << a, v >>, "ok")
    /\ wire' = << >>
    /\ UNCHANGED << cfg, filter_ch, remoteregs, scratch, coeffmem, cx >>

\* set_defaults, lines 117-147
set_defaults ==
    /\ localregs' =
         StageSeq(localregs, remoteregs,
           << << "input_en1", 1 >>, << "output_en1", 0 >>,
              << "input_en2", 1 >>, << "output_en2", 0 >>,
              << "ch1_sampling_freq", 0 >>, << "ch2_sampling_freq", 0 >>,
              << "filter_reset", 0 >>,
              << "relays_ch1", RelayWord(TRUE, FALSE, FALSE) >>,
              << "relays_ch2", RelayWord(TRUE, FALSE, FALSE) >> >>)
    /\ cfg' = GainsAssign(
                GainsAssign(
                  MatrixAssign(MatrixAssign(cfg, 1, UserOne, 0), 2, 0, UserOne),
                  1, UserOne, UserOne, 0, 0),
                2, UserOne, UserOne, 0, 0)
    /\ filter_ch' = << DefaultFilter, DefaultFilter >>
    /\ ret' = Returned("set_defaults", << >>, "ok")
    /\ wire' = << >>
    /\ UNCHANGED << remoteregs, scratch, coeffmem, cx >>

\* commit(): resolve the dependent registers, hand every pending register
\* to the transport; on success the pending set is cleared, on failure kept
CommitDone(writes, fails) ==
    /\ wire' = << RegsEvent(writes, ~fails) >>
    /\ IF fails
       THEN /\ localregs' = writes
            /\ remoteregs' = remoteregs
            /\ ret' = Returned("commit", << >>, "TransportError")
       ELSE /\ localregs' = EmptyRegs
            /\ remoteregs' = Merged(writes, remoteregs)
            /\ ret' = Returned("commit", << >>, "ok")
    /\ UNCHANGED << cfg, filter_ch, scratch, coeffmem, cx >>

commit(fails) == CommitDone(UpdateDependentRegs(localregs, remoteregs, cfg), fails)

---------------------------------------------------------------------------
(* set_filter, lines 188-285 *)

\* the enables staged before the upload
EnableFirst == << "enable", "mmap_on", "send_file", "mmap_off", "remove", "commit" >>

\* the statements of a call that leaves the commit to its caller
StepsNoCommit == << "mmap_on", "send_file", "mmap_off", "remove", "enable" >>

\* Lines 271-285 in program order: each statement after the payload file
\* has been written.  An exception in one of them ends the call there.
UploadSteps == << "mmap_on", "send_file", "mmap_off", "remove", "enable", "commit" >>

\* the statements that call the transport, i.e. that can fail
TransportSteps == { "mmap_on", "send_file", "mmap_off", "commit" }

\* stage the output and input enables of both channels
EnableBoth(local, remote, ch) ==
    StageSeq(local, remote, << << "output_en1", 1 >>, << "input_en1", 1 >>,
                               << "output_en2", 1 >>, << "input_en2", 1 >> >>)

\* lines 277-282: stage the output and input enable of the set channel
EnableStage(local, remote, ch) ==
    IF ch = 1
    THEN StageSeq(local, remote, << << "output_en1", 1 >>, << "input_en1", 1 >> >>)
    ELSE StageSeq(local, remote, << << "output_en2", 1 >>, << "input_en2", 1 >> >>)

\* the transport's answer to a register write, on the running state st
WriteRegs(st, writes, fails) ==
    IF fails
    THEN [st EXCEPT !.local = writes,
                    !.wire = Append(@, RegsEvent(writes, FALSE)),
                    !.outcome = "TransportError"]
    ELSE [st EXCEPT !.local = EmptyRegs,
                    !.remote = Merged(writes, st.remote),
                    !.wire = Append(@, RegsEvent(writes, TRUE))]

\* one commit inside set_filter, on the running state st
CommitIn(st, c, fails) ==
    WriteRegs(st, UpdateDependentRegs(st.local, st.remote, c), fails)

\* one statement of lines 271-285
UploadStep(st, step, c, ch, words, fail) ==
    CASE step = "mmap_on" ->
            CommitIn([st EXCEPT !.local = MmapStage(st.local, st.remote, TRUE)],
                     c, fail = step)
      [] step = "send_file" ->
            IF fail = step
            THEN [st EXCEPT !.wire = Append(@, FileEvent(words, FALSE)),
                            !.outcome = "TransportError"]
            ELSE [st EXCEPT !.wire = Append(@, FileEvent(words, TRUE))]
      [] step = "mmap_off" ->
            CommitIn([st EXCEPT !.local = MmapStage(st.local, st.remote, FALSE)],
                     c, fail = step)
      [] step = "remove" -> [st EXCEPT !.scratch = FALSE]
      [] step = "enable" -> [st EXCEPT !.local = EnableStage(st.local, st.remote, ch)]
      [] step = "commit" -> CommitIn(st, c, fail = step)

\* run the statements in order until one raises
RECURSIVE RunSteps(_, _, _, _, _, _)
RunSteps(st, steps, c, ch, words, fail) ==
    IF steps = << >> \/ st.outcome # "ok" THEN st
    ELSE RunSteps(UploadStep(st, Head(steps), c, ch, words, fail),
                  Tail(steps), c, ch, words, fail)

\* DecFilter.set_samplerate(factor) of channel ch's decimation filter,
\* lines 205-209: stage the decimation factor
DecFilterStage(local, remote, ch, sample_rate) ==
    Stage(local, remote, IF ch = 1 THEN "dec_factor1" ELSE "dec_factor2",
          IF sample_rate = "high" THEN 8 ELSE 1024)

\* lines 201-202: the checks made before anything is touched
FilterArgsValid(ch, sample_rate) == ch \in {1, 2} /\ sample_rate \in {"high", "low"}

\* lines 251-285, reached with the tables st.f both present
FilterUpload(st, c, ch, fail) ==
    IF st.f[1] = << >> \/ st.f[2] = << >>
    THEN [st EXCEPT !.outcome = "AttributeError"]
    ELSE RunSteps([st EXCEPT !.scratch = TRUE], UploadSteps, c, ch, Payload(st.f), fail)

\* lines 212-249, after the sample rate has been staged: check the table,
\* reshape and store it
FilterStore(st, v, c, ch, table, fail) ==
    IF v # "ok" THEN [st EXCEPT !.outcome = v]
    ELSE FilterUpload(IF table = "None" THEN st
                      ELSE [st EXCEPT !.f[ch] = Reshape(Tables[table], RowObject(table))],
                      c, ch, fail)

\* The whole call on state (f, local, remote, sc), giving the state it
\* leaves and its outcome.  table = "None" stands for filter_coefficients
\* = None; fail names the transport statement that fails, if any.
SetFilterRun(f, local, remote, sc, c, ch, sample_rate, table, fail) ==
    IF ~FilterArgsValid(ch, sample_rate)
    THEN [f |-> f, local |-> local, remote |-> remote, scratch |-> sc,
          wire |-> << >>, outcome |-> "ValidationError"]
    ELSE FilterStore([f |-> f, local |-> DecFilterStage(local, remote, ch, sample_rate),
                      remote |-> remote, scratch |-> sc, wire |-> << >>,
                      outcome |-> "ok"],
                     IF table = "None" THEN "ok" ELSE Validate(Tables[table]),
                     c, ch, table, fail)

\* the device's coefficient memory after the transport events w of a call:
\* the words of the last upload that completed, else what it held (mem)
Uploaded(w, mem) ==
    IF \E i \in 1 .. Len(w) : w[i].kind = "file" /\ w[i].ok
    THEN w[CHOOSE i \in 1 .. Len(w) :
             /\ w[i].kind = "file" /\ w[i].ok
             /\ \A j \in i + 1 .. Len(w) : ~(w[j].kind = "file" /\ w[j].ok)].words
    ELSE mem

\* the state a finished call leaves
SetFilterDone(st, ch, sample_rate, table) ==
    /\ filter_ch' = st.f
    /\ localregs' = st.local
    /\ remoteregs' = st.remote
    /\ scratch' = st.scratch
    /\ coeffmem' = Uploaded(st.wire, coeffmem)
    /\ wire' = st.wire
    /\ ret' = Returned("set_filter", << ch, sample_rate, table >>, st.outcome)
    /\ UNCHANGED << cfg, cx >>

set_filter(ch, sample_rate, table, fail) ==
    SetFilterDone(SetFilterRun(filter_ch, localregs, remoteregs, scratch, cfg,
                               ch, sample_rate, table, fail),
                  ch, sample_rate, table)

---------------------------------------------------------------------------
(* Codec experiments: encode a legal value of an attribute into its        *)
(* register, read the field back and decode it, frontend held fixed.       *)

\* legal values of an attribute: every pattern of an unscaled field, and
\* for the scaled ones values across the range its setter admits
LegalValues(a) ==
    CASE a \in {"matrixscale_ch1_ch1", "matrixscale_ch1_ch2",
                "matrixscale_ch2_ch1", "matrixscale_ch2_ch2"} ->
            { -20 * UserOne, -1, 0, 5, UserOne, 20 * UserOne }
      [] a \in {"input_scale1", "input_scale2", "output_scale1", "output_scale2"} ->
            { -100 * UserOne, -3, 0, UserOne, 100 * UserOne }
      [] a \in {"input_offset1", "input_offset2"} -> { -UserOne, 0, 3, UserOne }
      [] a \in {"output_offset1", "output_offset2"} -> { -2 * UserOne, 0, 3, 2 * UserOne }
      [] a \in {"mon1_source", "mon2_source"} -> 0 .. 6
      [] OTHER -> 0 .. 1

InitCodec ==
    /\ cfg = [ a \in CfgFields |-> 0 ]
    /\ filter_ch = << << >>, << >> >>
    /\ localregs = EmptyRegs
    /\ remoteregs = [ r \in Regs |-> 0 ]
    /\ scratch = FALSE
    /\ coeffmem = << >>
    /\ wire = << >>
    /\ ret = [op |-> "init", args |-> << >>, outcome |-> "ok", seq |-> 0]
    /\ \E a \in IirAttrs : \E v \in LegalValues(a) : \E fe \in BOOLEAN \X BOOLEAN :
          cx = [phase |-> "input", attr |-> a, v |-> v, fe |-> fe,
                img |-> 0, dec |-> [ok |-> TRUE, num |-> 0, den |-> 1]]

\* to_reg: stage the encoded value into a zero register image
CodecEncode ==
    /\ cx.phase = "input"
    /\ EncodeOk(cx.attr, cx.v, cx.fe)
    /\ cx' = [cx EXCEPT !.phase = "encoded",
                        !.img = Stage(EmptyRegs, [ r \in Regs |-> 0 ], cx.attr,
                                      Encode(cx.attr, cx.v, cx.fe))[AttrOf(cx.attr).reg]]
    /\ UNCHANGED << cfg, filter_ch, localregs, remoteregs, scratch, coeffmem, wire, ret >>

\* from_reg: extract the field and apply the inverse transform
CodecDecode ==
    /\ cx.phase = "encoded"
    /\ cx' = [cx EXCEPT !.phase = "decoded",
                        !.dec = Decode(cx.attr,
                                       Field(cx.img, AttrOf(cx.attr).off, AttrOf(cx.attr).len),
                                       cx.fe)]
    /\ UNCHANGED << cfg, filter_ch, localregs, remoteregs, scratch, coeffmem, wire, ret >>

NextCodec == CodecEncode \/ CodecDecode

SpecCodec == InitCodec /\ [][NextCodec]_vars

---------------------------------------------------------------------------
(* Encoding of the gains and offsets set_gains_offsets accepts into the   *)
(* input scale and input offset registers, whose transforms use no        *)
(* calibration value.                                                      *)

IndependentAttrs == { "input_scale1", "input_scale2", "input_offset1", "input_offset2" }

\* the input offset checked against the range of the output offset
WiderValues(a) ==
    IF a \in {"input_scale1", "input_scale2"}
    THEN -100 * UserOne .. 100 * UserOne
    ELSE -2 * UserOne .. 2 * UserOne

\* the values of the user grid that the checks of lines 322 and 324 admit
\* for the argument stored in attribute a
AcceptedValues(a) ==
    IF a \in {"input_scale1", "input_scale2"}
    THEN -100 * UserOne .. 100 * UserOne
    ELSE -UserOne .. UserOne

InitEncode ==
    /\ cfg = [ a \in CfgFields |-> 0 ]
    /\ filter_ch = << << >>, << >> >>
    /\ localregs = EmptyRegs
    /\ remoteregs = [ r \in Regs |-> 0 ]
    /\ scratch = FALSE
    /\ coeffmem = << >>
    /\ wire = << >>
    /\ ret = [op |-> "init", args |-> << >>, outcome |-> "ok", seq |-> 0]
    /\ \E a \in IndependentAttrs : \E v \in AcceptedValues(a) : \E fe \in BOOLEAN \X BOOLEAN :
          cx = [phase |-> "input", attr |-> a, v |-> v, fe |-> fe, raw |-> 0, fits |-> TRUE]

\* the to_reg transform of the attribute and the range check of its field
EncodeStage ==
    /\ cx.phase = "input"
    /\ cx' = [cx EXCEPT !.phase = "encoded",
                        !.raw = Xform(cx.attr, cx.v, cx.fe),
                        !.fits = Fits(cx.attr, Xform(cx.attr, cx.v, cx.fe))]
    /\ UNCHANGED << cfg, filter_ch, localregs, remoteregs, scratch, coeffmem, wire, ret >>

NextEncode == EncodeStage

SpecEncode == InitEncode /\ [][NextEncode]_vars

---------------------------------------------------------------------------
(* The caller's table and the stored one as Python objects (set_filter,   *)
(* lines 212-269).  mem maps a list object to its entries; a table is the *)
(* sequence of its row objects.                                            *)

\* the copy is the caller's own list
SameList(o) == o

\* deepcopy (line 215): a new list for every list of the table, one per
\* original object, so that rows shared in the original are shared in the copy
CopyOf(o) == o + 5

\* memory after intermediate_filter = deepcopy(filter_coefficients)
DeepCopied(mem) ==
    [ o \in DOMAIN mem \cup { CopyOf(x) : x \in DOMAIN mem } |->
        IF o \in { CopyOf(x) : x \in DOMAIN mem }
        THEN mem[CHOOSE x \in DOMAIN mem : CopyOf(x) = o]
        ELSE mem[o] ]

\* the row objects of the copy
CopiedRows(obj) == [ i \in 1 .. Len(obj) |-> CopyOf(obj[i]) ]

\* lines 235-244 on the copy, in memory
ReshapedMem(mem, obj) ==
    GainIntoLast(ScaleRows(DeepCopied(mem), CopiedRows(obj), 1), CopiedRows(obj))

\* lines 244-249: the row objects filter_ch1 / filter_ch2 is bound to
StoredRows(obj) == [ k \in 1 .. 4 |-> CopiedRows(obj)[k + 1] ]

\* the entries of a table given by its row objects
Deref(mem, rows) == [ i \in 1 .. Len(rows) |-> mem[rows[i]] ]

\* the caller's memory holding table t with row objects obj
CallerMem(t, obj) ==
    [ o \in { obj[i] : i \in 1 .. Len(t) } |-> t[CHOOSE i \in 1 .. Len(t) : obj[i] = o] ]

\* row objects of the caller's table: one list per row, but for shared_rows
CallerRows(name) ==
    IF name = "shared_rows" THEN << 0, 1, 1, 1, 1 >>
    ELSE [ i \in 1 .. Len(Tables[name]) |-> i - 1 ]

MutatedRows    == 1 .. 5
MutatedEntries == { 1, 2 }
MutatedValues  == { 0, 3 * Q, -5 * Q }

InitTables ==
    /\ cfg = [ a \in CfgFields |-> 0 ]
    /\ filter_ch = << DefaultFilter, DefaultFilter >>
    /\ localregs = EmptyRegs
    /\ remoteregs = [ r \in Regs |-> 0 ]
    /\ scratch = FALSE
    /\ coeffmem = << >>
    /\ wire = << >>
    /\ ret = [op |-> "init", args |-> << >>, outcome |-> "ok", seq |-> 0]
    /\ \E name \in TableNames : \E ch \in {1, 2} :
          cx = [phase |-> "input", name |-> name, ch |-> ch,
                rows |-> CallerRows(name),
                mem |-> CallerMem(Tables[name], CallerRows(name)),
                stored |-> << >>, words |-> << >>]

\* lines 212-249 of set_filter(ch, rate, table): copy, check, reshape, store
TableStore ==
    /\ cx.phase = "input"
    /\ IF Validate(Deref(cx.mem, cx.rows)) = "ok"
       THEN /\ cx' = [cx EXCEPT !.phase = "stored",
                                !.mem = ReshapedMem(cx.mem, cx.rows),
                                !.stored = StoredRows(cx.rows)]
            /\ filter_ch' = [filter_ch EXCEPT
                               ![cx.ch] = Deref(ReshapedMem(cx.mem, cx.rows), StoredRows(cx.rows))]
       ELSE /\ cx' = [cx EXCEPT !.phase = "raised", !.mem = DeepCopied(cx.mem)]
            /\ filter_ch' = filter_ch
    /\ UNCHANGED << cfg, localregs, remoteregs, scratch, coeffmem, wire, ret >>

\* the caller writes one entry of its own table in place: t[m][n] = v
CallerMutates ==
    /\ cx.phase = "stored"
    /\ \E m \in MutatedRows : \E n \in MutatedEntries : \E v \in MutatedValues :
          /\ n <= Len(cx.mem[cx.rows[m]])
          /\ cx' = [cx EXCEPT !.phase = "mutated", !.mem[cx.rows[m]][n] = v]
          /\ filter_ch' = [filter_ch EXCEPT ![cx.ch] = Deref(cx'.mem, cx.stored)]
    /\ UNCHANGED << cfg, localregs, remoteregs, scratch, coeffmem, wire, ret >>

\* lines 251-269 of a later set_filter(ch, rate, None): pack what is stored
TablePack ==
    /\ cx.phase = "mutated"
    /\ cx' = [cx EXCEPT !.phase = "packed", !.words = Payload(filter_ch)]
    /\ UNCHANGED << cfg, filter_ch, localregs, remoteregs, scratch, coeffmem, wire, ret >>

NextTables == TableStore \/ CallerMutates \/ TablePack

SpecTables == InitTables /\ [][NextTables]_vars

---------------------------------------------------------------------------
(* Frame scales (_calculate_scales, lines 439-472).  A gain is a ratio    *)
(* << num, den >> in volts per bit.                                        *)

\* every source passes samples through unscaled
UnityGains(code, fe) == << 1, 1 >>

\* monitor_source_gains[str(code)], lines 441-458; fe = << atten_ch1, atten_ch2 >>
MonitorSourceGains(code, fe) ==
    CASE code = IIR_MON_NONE -> << 1, 1 >>
      [] code = IIR_MON_ADC1 -> << 1, AdcCal(fe[1]) * AttenDiv(fe[1]) >>
      [] code = IIR_MON_IN1  -> << 1, ADC_DEFAULT_CALIBRATION >>
      [] code = IIR_MON_OUT1 -> << 2 ^ 4, DacCal >>
      [] code = IIR_MON_ADC2 -> << 1, AdcCal(fe[2]) * AttenDiv(fe[2]) >>
      [] code = IIR_MON_IN2  -> << 1, ADC_DEFAULT_CALIBRATION >>
      [] code = IIR_MON_OUT2 -> << 2 ^ 4, DacCal >>

\* the keys of the dictionary monitor_source_gains, lines 450-458
GainKeys == { IIR_MON_NONE, IIR_MON_ADC1, IIR_MON_IN1, IIR_MON_OUT1,
              IIR_MON_ADC2, IIR_MON_IN2, IIR_MON_OUT2 }

\* lines 464-467: the decimation gain divides the scale in precision mode
DeciScaled(g, precision, deci) == IF precision THEN << g[1], g[2] * deci >> ELSE g

\* _calculate_scales: the two frame scales for the selected monitor sources
CalculateScales(mon1, mon2, fe, precision, deci) ==
    [ scale_ch1 |-> DeciScaled(MonitorSourceGains(mon1, fe), precision, deci),
      scale_ch2 |-> DeciScaled(MonitorSourceGains(mon2, fe), precision, deci) ]

\* frame decoding: a raw sample times the frame scale of its channel
Scaled(raw, g) == << raw * g[1], g[2] >>

DeciArgs == { 1, 4, 1000 }
RawArgs  == { -7, 0, 12 }

InitScales ==
    /\ cfg = [ a \in CfgFields |-> 0 ]
    /\ filter_ch = << << >>, << >> >>
    /\ localregs = EmptyRegs
    /\ remoteregs = [ r \in Regs |-> 0 ]
    /\ scratch = FALSE
    /\ coeffmem = << >>
    /\ wire = << >>
    /\ ret = [op |-> "init", args |-> << >>, outcome |-> "ok", seq |-> 0]
    /\ \E a \in DOMAIN MonSources : \E b \in DOMAIN MonSources :
       \E fe \in BOOLEAN \X BOOLEAN : \E pm \in BOOLEAN : \E dg \in DeciArgs :
       \E raw \in RawArgs :
          cx = [phase |-> "input", a |-> a, b |-> b, fe |-> fe, precision |-> pm,
                deci |-> dg, raw |-> raw,
                scales |-> [scale_ch1 |-> << 0, 1 >>, scale_ch2 |-> << 0, 1 >>],
                channel_a |-> << 0, 1 >>, channel_b |-> << 0, 1 >>]

\* the scale state for the selected sources
ScalesCalculate ==
    /\ cx.phase = "input"
    /\ cx' = [cx EXCEPT !.phase = "scaled",
                        !.scales = CalculateScales(MonSources[cx.a], MonSources[cx.b],
                                                   cx.fe, cx.precision, cx.deci)]
    /\ UNCHANGED << cfg, filter_ch, localregs, remoteregs, scratch, coeffmem, wire, ret >>

\* one raw sample per channel decoded with that scale state
ScalesDecode ==
    /\ cx.phase = "scaled"
    /\ cx' = [cx EXCEPT !.phase = "decoded",
                        !.channel_a = Scaled(cx.raw, cx.scales.scale_ch1),
                        !.channel_b = Scaled(cx.raw, cx.scales.scale_ch2)]
    /\ UNCHANGED << cfg, filter_ch, localregs, remoteregs, scratch, coeffmem, wire, ret >>

\* the scale state of the configuration the device runs: the snapshot taken
\* by the last successful commit, outside precision mode
ScaleState(remote) ==
    CalculateScales(Get(EmptyRegs, remote, "mon1_source"),
                    Get(EmptyRegs, remote, "mon2_source"),
                    Frontend(EmptyRegs, remote), FALSE, 1)

\* the scale state of the live instrument: staged values over committed ones
LiveScales(local, remote) ==
    CalculateScales(Get(local, remote, "mon1_source"),
                    Get(local, remote, "mon2_source"),
                    Frontend(local, remote), FALSE, 1)

\* a frame decoded with the scales of the instrument as it is at decoding
DecodeLive(frame, local, remote) == LiveScales(local, remote)

\* the scale state a frame is decoded with
FrameScales(frame, local, remote) == frame.scales

\* get_frame: the device returns a raw sample with the scale state and the
\* monitor selection active at capture
get_frame(raw) ==
    /\ cx.phase \in {"idle", "decoded"}
    /\ cx' = [phase |-> "captured", raw |-> raw, scales |-> ScaleState(remoteregs),
              mon |-> << Get(EmptyRegs, remoteregs, "mon1_source"),
                         Get(EmptyRegs, remoteregs, "mon2_source") >>,
              fe |-> Frontend(EmptyRegs, remoteregs),
              channel_a |-> << 0, 1 >>, channel_b |-> << 0, 1 >>]
    /\ ret' = [ret EXCEPT !.op = "get_frame", !.args = << raw >>, !.outcome = "ok"]
    /\ wire' = << >>
    /\ UNCHANGED << cfg, filter_ch, localregs, remoteregs, scratch, coeffmem >>

\* decoding of the frame in flight
decode_frame ==
    /\ cx.phase = "captured"
    /\ cx' = [cx EXCEPT !.phase = "decoded",
                 !.channel_a = Scaled(cx.raw, FrameScales(cx, localregs, remoteregs).scale_ch1),
                 !.channel_b = Scaled(cx.raw, FrameScales(cx, localregs, remoteregs).scale_ch2)]
    /\ ret' = [ret EXCEPT !.op = "decode_frame", !.args = << >>, !.outcome = "ok"]
    /\ wire' = << >>
    /\ UNCHANGED << cfg, filter_ch, localregs, remoteregs, scratch, coeffmem >>

NextScales == ScalesCalculate \/ ScalesDecode

SpecScales == InitScales /\ [][NextScales]_vars

---------------------------------------------------------------------------
(* Two instruments of one process in set_filter at once (lines 265-274),  *)
(* each driven by its own thread and attached to its own device.  Both    *)
(* name the scratch file by the same relative path '.data.dat'.           *)

Instances == {1, 2}

\* the tables the two callers pass
TwoTables == { "sections", "steep", "shared_rows" }

\* the statements of lines 265-274, and how a call ends
TwoPcs == { "write", "mmap_on", "send_file", "mmap_off", "remove", "done", "raised" }

\* the stored tables of an instrument after set_defaults and lines 212-249 of
\* set_filter(ch, rate, Tables[name])
StoredAfter(ch, name) ==
    [ k \in 1 .. 2 |-> IF k = ch THEN Reshape(Tables[name], RowObject(name))
                       ELSE DefaultFilter ]

InitTwo ==
    /\ cfg = [ a \in CfgFields |-> 0 ]
    /\ filter_ch = << << >>, << >> >>
    /\ localregs = EmptyRegs
    /\ remoteregs = [ r \in Regs |-> 0 ]
    /\ scratch = FALSE
    /\ coeffmem = << >>
    /\ wire = << >>
    /\ ret = [op |-> "init", args |-> << >>, outcome |-> "ok", seq |-> 0]
    /\ \E n1 \in TwoTables : \E n2 \in TwoTables : \E c1 \in {1, 2} : \E c2 \in {1, 2} :
          cx = [phase |-> "two",
                f |-> << StoredAfter(c1, n1), StoredAfter(c2, n2) >>,
                pc |-> << "write", "write" >>,
                file |-> << >>,
                sent |-> << << >>, << >> >>,
                outcome |-> << "ok", "ok" >>]

\* lines 265-269 of instance i: open('.data.dat', 'wb') creates or truncates
\* the file of that name, and the packed words are written to it
TwoWrite(i) ==
    /\ cx.phase = "two" /\ cx.pc[i] = "write"
    /\ cx' = [cx EXCEPT !.pc[i] = "mmap_on", !.file = Payload(cx.f[i])]
    /\ scratch' = TRUE
    /\ UNCHANGED << cfg, filter_ch, localregs, remoteregs, coeffmem, wire, ret >>

\* lines 271 and 273 of instance i: the access flag of its own device
TwoMmap(i) ==
    /\ cx.phase = "two" /\ cx.pc[i] \in {"mmap_on", "mmap_off"}
    /\ cx' = [cx EXCEPT !.pc[i] = IF cx.pc[i] = "mmap_on" THEN "send_file" ELSE "remove"]
    /\ UNCHANGED << cfg, filter_ch, localregs, remoteregs, scratch, coeffmem, wire, ret >>

\* line 272 of instance i: the file now at '.data.dat' goes to its device;
\* with no file of that name the call raises
TwoSend(i) ==
    /\ cx.phase = "two" /\ cx.pc[i] = "send_file"
    /\ IF scratch
       THEN cx' = [cx EXCEPT !.pc[i] = "mmap_off", !.sent[i] = cx.file]
       ELSE cx' = [cx EXCEPT !.pc[i] = "raised", !.outcome[i] = "IOError"]
    /\ UNCHANGED << cfg, filter_ch, localregs, remoteregs, scratch, coeffmem, wire, ret >>

\* line 274 of instance i: os.remove('.data.dat'); with no file of that name
\* it raises
TwoRemove(i) ==
    /\ cx.phase = "two" /\ cx.pc[i] = "remove"
    /\ IF scratch
       THEN /\ cx' = [cx EXCEPT !.pc[i] = "done", !.file = << >>]
            /\ scratch' = FALSE
       ELSE /\ cx' = [cx EXCEPT !.pc[i] = "raised", !.outcome[i] = "OSError"]
            /\ scratch' = scratch
    /\ UNCHANGED << cfg, filter_ch, localregs, remoteregs, coeffmem, wire, ret >>

NextTwo ==
    \/ \E i \in Instances : TwoWrite(i)
    \/ \E i \in Instances : TwoMmap(i)
    \/ \E i \in Instances : TwoSend(i)
    \/ \E i \in Instances : TwoRemove(i)

SpecTwo == InitTwo /\ [][NextTwo]_vars

---------------------------------------------------------------------------
(* The value check of set_filter, lines 228-232, and what its error names *)

\* the table [[1.0], b, b, b, b] with entry n of row m set to v
WithEntry(m, n, v) ==
    LET r == IF m = 0 THEN << 4 * Q >> ELSE AllPassRow
        row == SubSeq(r, 1, n) \o << v >> \o SubSeq(r, n + 2, Len(r))
    IN  << IF m = 0 THEN row ELSE << 4 * Q >>,
           IF m = 1 THEN row ELSE AllPassRow,
           IF m = 2 THEN row ELSE AllPassRow,
           IF m = 3 THEN row ELSE AllPassRow,
           IF m = 4 THEN row ELSE AllPassRow >>

\* the entries the check visits, in its order: <<0, 0>>, then rows 1..4
CheckedEntries == { << 0, 0 >> } \cup ((1 .. 4) \X (0 .. 5))

\* values for entry (m, n): one inside the range and some outside it
EntryValues(m) ==
    IF m = 0
    THEN { 8 * Q, 8000000 * CoefOne, -8000000 * CoefOne - 1 }
    ELSE { 2 * Q, 4 * CoefOne, -4 * CoefOne - 1, 5 * CoefOne }

\* is entry (m, n) of t inside the range the check allows it
EntryInRange(t, m, n) ==
    IF m = 0 THEN GainInRange(t[1][1]) ELSE CoefInRange(t[m + 1][n + 1])

\* the first entry, in the order of the checks, that is out of range
FirstOutside(t) ==
    CHOOSE e \in CheckedEntries :
        /\ ~EntryInRange(t, e[1], e[2])
        /\ \A d \in CheckedEntries :
              ~EntryInRange(t, d[1], d[2]) =>
                  (e[1] < d[1] \/ (e[1] = d[1] /\ e[2] <= d[2]))

\* the m and n the description of the check at entry (m, n) is formatted
\* with: "coefficient array entry m = %s, n = %s" % (0, 0), lines 229 and 232
DescEntry(m, n) == << 0, 0 >>

\* the entry the raised error names for a well-shaped table t
NamedEntry(t) == DescEntry(FirstOutside(t)[1], FirstOutside(t)[2])

InitValues ==
    /\ cfg = [ a \in CfgFields |-> 0 ]
    /\ filter_ch = << << >>, << >> >>
    /\ localregs = EmptyRegs
    /\ remoteregs = [ r \in Regs |-> 0 ]
    /\ scratch = FALSE
    /\ coeffmem = << >>
    /\ wire = << >>
    /\ ret = [op |-> "init", args |-> << >>, outcome |-> "ok", seq |-> 0]
    /\ \E e \in CheckedEntries : \E v \in EntryValues(e[1]) :
          cx = [phase |-> "input", m |-> e[1], n |-> e[2], v |-> v,
                table |-> WithEntry(e[1], e[2], v),
                outcome |-> "ok", named |-> << >>]

\* lines 217-232 on the table
ValueCheck ==
    /\ cx.phase = "input"
    /\ cx' = [cx EXCEPT !.phase = "checked",
                        !.outcome = Validate(cx.table),
                        !.named = IF Validate(cx.table) = "ValidationError"
                                  THEN NamedEntry(cx.table) ELSE << >>]
    /\ UNCHANGED << cfg, filter_ch, localregs, remoteregs, scratch, coeffmem, wire, ret >>

NextValues == ValueCheck

SpecValues == InitValues /\ [][NextValues]_vars

---------------------------------------------------------------------------
(* Inputs *)

\* calls made on one instrument, set_defaults included
MaxCalls    == 4
MaxRegCalls == 6
MaxMonCalls == 5
MaxFrameCalls == 5
MaxResetCalls == 3

ChArgs     == {1, 2, 3}
RateArgs   == {"high", "low", "mid"}
TableArgs  == TableNames \cup {"None"}
FailArgs   == {"none"} \cup TransportSteps
Scale1Args == { 5, 25 * UserOne }
Scale2Args == { -20 * UserOne, -20 * UserOne - 1 }
InGainArgs == { 100 * UserOne, 100 * UserOne + 1 }
OutGainArgs == { -100 * UserOne, -100 * UserOne - 1 }
InOffArgs  == { UserOne, UserOne + 1 }
OutOffArgs == { -2 * UserOne, -2 * UserOne - 1 }

\* set_filter calls: every table on channel 1, a valid, an absent and a
\* misshapen table on channel 2, both sample rates, and one call for each
\* invalid channel or rate
FilterCalls ==
    ({1} \X {"high"} \X TableArgs)
      \cup ({2} \X {"high"} \X {"sections", "None", "four_rows"})
      \cup { << 2, "low", "None" >> }
      \cup { c \in ChArgs \X RateArgs \X {"sections"} : ~FilterArgsValid(c[1], c[2]) }

\* does the call get as far as the transport
ReachesUpload(f, ch, sample_rate, table) ==
    /\ FilterArgsValid(ch, sample_rate)
    /\ table # "None" => Validate(Tables[table]) = "ok"
    /\ \A k \in {1, 2} : (k = ch /\ table # "None") \/ f[k] # << >>

SetDefaults == set_defaults

\* set_defaults is always the first call after construction
AtStart == ret.op = "init"
First   == AtStart /\ set_defaults

SetControlMatrix ==
    \E ch \in ChArgs : \E s1 \in Scale1Args : \E s2 \in Scale2Args :
        set_control_matrix(ch, s1, s2)

SetGainsOffsets ==
    \E ch \in ChArgs : \E ig \in InGainArgs : \E og \in OutGainArgs :
    \E io \in InOffArgs : \E oo \in OutOffArgs :
        set_gains_offsets(ch, ig, og, io, oo)

\* set_gains_offsets(ch): every argument but the channel omitted
SetGainsDefaults ==
    \E ch \in ChArgs :
        set_gains_offsets(ch, DefaultGain, DefaultGain, DefaultOffset, DefaultOffset)

SetFrontend ==
    \E ch \in {1, 2} : \E atten \in BOOLEAN : set_frontend(ch, TRUE, atten, FALSE)

SetFilter ==
    \E c \in FilterCalls :
    \E fail \in (IF ReachesUpload(filter_ch, c[1], c[2], c[3]) THEN FailArgs ELSE {"none"}) :
        set_filter(c[1], c[2], c[3], fail)

Commit == \E fails \in BOOLEAN : commit(fails)

MonChArgs  == { "a", "b", "c" }
SourceArgs == { "adc1", "in1", "out1", "adc2", "in2", "out2", "none" }

SetMonitor == \E ch \in MonChArgs : \E source \in SourceArgs : set_monitor(ch, source)

DisableOutput == \E ch \in ChArgs : disable_output(ch)

WriteEnable == \E a \in EnableAttrs : \E v \in BOOLEAN : write_enable(a, v)

\* a commit the transport accepts
CommitOk == commit(FALSE)

\* further calls are made while the call budget lasts
Open     == ~AtStart /\ ret.seq < MaxCalls
OpenRegs == ~AtStart /\ ret.seq < MaxRegCalls
OpenMon  == ~AtStart /\ ret.seq < MaxMonCalls
OpenFrame == ~AtStart /\ ret.seq < MaxFrameCalls

\* the filter path: defaults, coefficient upload, commit
NextFilter ==
    \/ First
    \/ (Open /\ SetFilter)
    \/ (Open /\ CommitOk)

SpecFilter == Init /\ [][NextFilter]_vars

\* the register path: frontend, mixing matrix, gains and offsets, commit
NextRegs ==
    \/ First
    \/ (OpenRegs /\ SetFrontend)
    \/ (OpenRegs /\ SetControlMatrix)
    \/ (OpenRegs /\ SetGainsOffsets)
    \/ (OpenRegs /\ Commit)

SpecRegs == Init /\ [][NextRegs]_vars

\* the gains path: gains and offsets with given and with omitted arguments
NextGains ==
    \/ First
    \/ (OpenRegs /\ SetGainsOffsets)
    \/ (OpenRegs /\ SetGainsDefaults)

SpecGains == Init /\ [][NextGains]_vars

\* the monitor path: monitor sources, enables, frontend, commit
NextMon ==
    \/ First
    \/ (OpenMon /\ SetMonitor)
    \/ (OpenMon /\ DisableOutput)
    \/ (OpenMon /\ WriteEnable)
    \/ (OpenMon /\ SetFrontend)
    \/ (OpenMon /\ Commit)

SpecMon == Init /\ [][NextMon]_vars

GetFrame == \E raw \in RawArgs : get_frame(raw)

DecodeFrame == decode_frame

\* the frame path: monitor and frontend changes around capture and decoding
NextFrame ==
    \/ First
    \/ (OpenFrame /\ SetMonitor)
    \/ (OpenFrame /\ SetFrontend)
    \/ (OpenFrame /\ Commit)
    \/ (~AtStart /\ GetFrame)
    \/ (~AtStart /\ DecodeFrame)

SpecFrame == Init /\ [][NextFrame]_vars

SetFilterOk == \E c \in FilterCalls : set_filter(c[1], c[2], c[3], "none")

\* the defaults path: set_defaults at any time, no transport failure
NextDefaults ==
    \/ First
    \/ (Open /\ SetDefaults)
    \/ (Open /\ SetFilterOk)
    \/ (Open /\ CommitOk)

SpecDefaults == Init /\ [][NextDefaults]_vars

\* the reset path: any setter, upload or commit, then set_defaults
OpenReset == ~AtStart /\ ret.seq < MaxResetCalls

NextReset ==
    \/ First
    \/ (~AtStart /\ ret.seq <= MaxResetCalls /\ SetDefaults)
    \/ (OpenReset /\ SetFrontend)
    \/ (OpenReset /\ SetControlMatrix)
    \/ (OpenReset /\ SetGainsOffsets)
    \/ (OpenReset /\ SetFilterOk)
    \/ (OpenReset /\ WriteEnable)
    \/ (OpenReset /\ DisableOutput)
    \/ (OpenReset /\ CommitOk)

SpecReset == Init /\ [][NextReset]_vars

Next ==
    \/ First
    \/ (Open /\ SetDefaults)
    \/ (Open /\ SetFrontend)
    \/ (Open /\ SetControlMatrix)
    \/ (Open /\ SetGainsOffsets)
    \/ (Open /\ SetFilter)
    \/ (Open /\ SetMonitor)
    \/ (Open /\ DisableOutput)
    \/ (Open /\ WriteEnable)
    \/ (Open /\ Commit)
    \/ (~AtStart /\ GetFrame)
    \/ (~AtStart /\ DecodeFrame)

Spec == Init /\ [][Next]_vars

---------------------------------------------------------------------------
(* Properties *)

\* positions of the bulk uploads among the last call's transport events
FileEvents == { i \in 1 .. Len(wire) : wire[i].kind = "file" }

\* a table of exactly 5 rows, row 0 of one entry, rows 1..4 of six
WellShaped(t) == Len(t) = 5 /\ Len(t[1]) = 1 /\ \A m \in 2 .. 5 : Len(t[m]) = 6

\* G in [-8e6, 8e6) and every section entry in [-4.0, 4.0)
EntriesLegal(t) ==
    /\ t[1][1] >= -8000000 * CoefOne /\ t[1][1] < 8000000 * CoefOne
    /\ \A m \in 2 .. 5 : \A n \in 1 .. 6 : t[m][n] >= -4 * CoefOne /\ t[m][n] < 4 * CoefOne

ArgsLegal(args) == args[1] \in {1, 2} /\ args[2] \in {"high", "low"}

\* a set_filter call given a legal channel and rate and a valid table
ValidTableCall(args) ==
    /\ ArgsLegal(args)
    /\ args[3] # "None"
    /\ WellShaped(Tables[args[3]])
    /\ EntriesLegal(Tables[args[3]])

\* a set_filter call with an invalid channel, rate or table
InvalidCall(args) ==
    ~ArgsLegal(args) \/ (args[3] # "None" /\ ~ValidTableCall(args))

\* C1: whenever set_filter returns or raises after _set_mmap_access(True) was
\* performed (also when _send_file fails), the mmap access flag is off.
C1_AccessReleased ==
    (ret.op = "set_filter" /\ wire # << >> /\ wire[1].ok)
        => Get(localregs, remoteregs, "mmap_access") = 0

\* C2: a set_filter call whose channel, sample rate or table is invalid raises
\* a validation error and changes nothing: the stored tables, the pending
\* write set (decimation factor and enables included) and the committed
\* registers are as before, and nothing is sent.
C2_AllOrNothing ==
    [][ (ret'.op = "set_filter" /\ ret'.seq # ret.seq /\ InvalidCall(ret'.args))
          => /\ ret'.outcome = "ValidationError"
             /\ filter_ch' = filter_ch
             /\ localregs' = localregs
             /\ remoteregs' = remoteregs
             /\ wire' = << >> ]_vars

\* C3: a table that is not None and not of the shape 1 + 4 x 6 (a wrong
\* length of row 4 alone included) is refused with a validation error and
\* nothing is uploaded.
C3_ShapeChecked ==
    (ret.op = "set_filter" /\ ArgsLegal(ret.args) /\ ret.args[3] # "None"
       /\ ~WellShaped(Tables[ret.args[3]]))
        => (ret.outcome = "ValidationError" /\ FileEvents = {})

\* the named scaled registers as the device holds them
DeviceHolds(a) == Get(EmptyRegs, remoteregs, a)

\* C4: after every successful commit the control-matrix, input-offset and
\* input/output scale registers hold the encodings of the user values set
\* last, computed with the frontend attenuation committed with them, in
\* whatever order the setters were called.
C4_DependentRegsFresh ==
    (ret.op = "commit" /\ ret.outcome = "ok")
        => \A a \in ScaledAttrs \ {"output_offset1", "output_offset2"} :
              DeviceHolds(a) = Encode(a, cfg[a], Frontend(EmptyRegs, remoteregs))

\* a commit that found channel 1 attenuated, a mixing scale of 0.5 and an
\* input offset of 1.0 set by the caller
C4_Witness ==
    /\ ret.op = "commit" /\ ret.outcome = "ok"
    /\ Frontend(EmptyRegs, remoteregs)[1]
    /\ cfg.matrixscale_ch1_ch1 = 5
    /\ cfg.input_offset1 = UserOne
    /\ DeviceHolds("matrixscale_ch1_ch1") = 505
    /\ DeviceHolds("input_offset1") = 750

\* C5: for a valid table passed to set_filter(ch, ...) the table stored for
\* ch has, in each section k, b0 b1 b2 equal to s_k times the originals,
\* a1 a2 as given, and the gain slot 1.0 in sections 1..3 and G in section 4.
C5_Reshaped ==
    (ret.op = "set_filter" /\ ValidTableCall(ret.args))
        => LET t == Tables[ret.args[3]]
               f == filter_ch[ret.args[1]]
           IN  /\ Len(f) = 4
               /\ \A k \in 1 .. 4 :
                    /\ Len(f[k]) = 6
                    /\ f[k][1] = (IF k = 4 THEN t[1][1] ELSE CoefOne)
                    /\ \A j \in 2 .. 4 : f[k][j] * CoefOne = t[k + 1][1] * t[k + 1][j]
                    /\ f[k][5] = t[k + 1][5]
                    /\ f[k][6] = t[k + 1][6]

\* the table with G = 2.0 and four distinct sections, stored for channel 2
C5_Witness ==
    /\ ret.op = "set_filter" /\ ret.args = << 2, "high", "sections" >>
    /\ filter_ch[2][4][1] = 2 * CoefOne
    /\ filter_ch[2][1][2] = CoefOne \div 2
    /\ filter_ch[2][4][4] = -3 * CoefOne

\* C6: set_control_matrix with ch not in {1, 2} or a scale outside [-20, 20]
\* raises a validation error and leaves the four stored scales as they were;
\* with valid arguments it sets the two scales of channel ch and no other.
C6_MatrixSetter ==
    [][ (ret'.op = "set_control_matrix" /\ ret'.seq # ret.seq)
          => LET ch == ret'.args[1]
                 s1 == ret'.args[2]
                 s2 == ret'.args[3]
             IN  IF /\ ch \in {1, 2}
                    /\ s1 >= -20 * UserOne /\ s1 <= 20 * UserOne
                    /\ s2 >= -20 * UserOne /\ s2 <= 20 * UserOne
                 THEN /\ ret'.outcome = "ok"
                      /\ cfg' = IF ch = 1
                                THEN [cfg EXCEPT !.matrixscale_ch1_ch1 = s1,
                                                 !.matrixscale_ch1_ch2 = s2]
                                ELSE [cfg EXCEPT !.matrixscale_ch2_ch1 = s1,
                                                 !.matrixscale_ch2_ch2 = s2]
                 ELSE /\ ret'.outcome = "ValidationError"
                      /\ cfg' = cfg ]_vars

\* a call refused for its second scale, after a call that had set channel 2
C6_Witness ==
    /\ ret.op = "set_control_matrix" /\ ret.outcome = "ValidationError"
    /\ ret.args = << 1, 5, -20 * UserOne - 1 >>
    /\ cfg.matrixscale_ch2_ch1 = 5
    /\ cfg.matrixscale_ch1_ch1 = UserOne

\* the word packed for channel k, component y, row x (all from 0): the
\* entry y + 6k of row x of the two stored tables side by side, scaled by
\* 2^24 in the gain slot and by 2^45 elsewhere
PackedWord(k, y, x) ==
    (filter_ch[1][x + 1] \o filter_ch[2][x + 1])[y + 6 * k + 1]
        * 2 ^ ((IF y = 0 THEN 24 ELSE 45) - CoefBits - WordShift)

\* C7 as stated: the payload is 48 words in component-major, then channel,
\* then row order.
C7_ComponentOutermost ==
    \A i \in FileEvents :
        /\ Len(wire[i].words) = 48
        /\ \A k \in 0 .. 1 : \A y \in 0 .. 5 : \A x \in 0 .. 3 :
              wire[i].words[(y * 2 + k) * 4 + x + 1] = PackedWord(k, y, x)

\* C7, amended: the payload is 48 words in channel-major, then component,
\* then row order.
C7_ChannelOutermost ==
    \A i \in FileEvents :
        /\ Len(wire[i].words) = 48
        /\ \A k \in 0 .. 1 : \A y \in 0 .. 5 : \A x \in 0 .. 3 :
              wire[i].words[(k * 6 + y) * 4 + x + 1] = PackedWord(k, y, x)

\* an upload made while the two channels hold different tables
C7_Witness ==
    /\ FileEvents # {}
    /\ filter_ch[1] = DefaultFilter
    /\ filter_ch[2] = Reshape(Tables.sections, RowObject("sections"))

C9_WordsFit ==
    \A i \in FileEvents : \A j \in 1 .. Len(wire[i].words) :
        /\ wire[i].words[j] >= -(2 ^ (IIR_COEFFWIDTH - 1 - WordShift))
        /\ wire[i].words[j] < 2 ^ (IIR_COEFFWIDTH - 1 - WordShift)

\* C10: decoding the field that encoding a legal value v produced succeeds
\* and gives v within one quantization step, for every attribute of the
\* table and both attenuation states.
C10_RoundTrip ==
    cx.phase = "decoded"
        => /\ cx.dec.ok
           /\ Abs(cx.dec.num - cx.v * cx.dec.den) <= DecodeRatio(cx.attr, cx.fe)[1]

---------------------------------------------------------------------------
(* Monitor and enable fields *)

\* the other attributes of the register table held in the register of a
CoResident(a) == { b \in IirAttrs : b # a /\ Attr[b].reg = Attr[a].reg }

\* the attributes that share their register with another one
SharedAttrs == { a \in IirAttrs : CoResident(a) # {} }

\* attributes that share a register have no bit in common
FieldsDisjoint ==
    \A a \in IirAttrs : \A b \in CoResident(a) :
        \/ Attr[a].off + Attr[a].len <= Attr[b].off
        \/ Attr[b].off + Attr[b].len <= Attr[a].off

\* the step leaves the live value of every co-resident attribute of a alone
OthersKept(a) ==
    \A b \in CoResident(a) :
        Get(localregs', remoteregs', b) = Get(localregs, remoteregs, b)

\* C11: attributes sharing a register have disjoint bit ranges; a successful
\* set_monitor sets the field of its own monitor and leaves the other
\* monitor's field of register 111 as it was; a write to one enable bit
\* leaves the other three bits of register 96 as they were; and a successful
\* commit writes each pending register once, every shared attribute's field
\* of the written image equal to its live value before the commit, registers
\* that were not pending keeping their committed image.
C11_FieldsIndependent ==
    [][ /\ FieldsDisjoint
        /\ (ret'.op = "set_monitor" /\ ret'.outcome = "ok") =>
              /\ Get(localregs', remoteregs', MonitorAttr(ret'.args[1])) = MonSources[ret'.args[2]]
              /\ OthersKept(IF ret'.args[1] = "a" THEN "mon1_source" ELSE "mon2_source")
        /\ (ret'.op = "write_enable") =>
              /\ Get(localregs', remoteregs', ret'.args[1]) = (IF ret'.args[2] THEN 1 ELSE 0)
              /\ OthersKept(ret'.args[1])
        /\ (ret'.op = "disable_output") =>
              /\ Get(localregs', remoteregs',
                     IF ret'.args[1] = 1 THEN "output_en1" ELSE "output_en2") = 0
              /\ OthersKept(IF ret'.args[1] = 1 THEN "output_en1" ELSE "output_en2")
        /\ (ret'.op = "commit" /\ ret'.outcome = "ok") =>
              /\ Len(wire') = 1
              /\ DOMAIN wire'[1].writes = DOMAIN localregs \cup DOMAIN UpdateDependentRegs(localregs, remoteregs, cfg)
              /\ \A a \in SharedAttrs :
                    /\ Get(localregs', remoteregs', a) = Get(localregs, remoteregs, a)
                    /\ Attr[a].reg \in DOMAIN wire'[1].writes =>
                          Field(wire'[1].writes[Attr[a].reg], Attr[a].off, Attr[a].len)
                              = Get(localregs', remoteregs', a)
              /\ \A r \in Regs \ DOMAIN wire'[1].writes : remoteregs'[r] = remoteregs[r]
      ]_vars

\* a commit has just written register 111 alone among the two shared
\* registers, and the device holds out1 for monitor a and in2 for monitor b,
\* two sources no single call selects together; register 96 holds the
\* enables of an earlier commit
C11_Witness ==
    /\ ret.op = "commit" /\ ret.outcome = "ok"
    /\ REG_MONSELECT \in DOMAIN wire[1].writes
    /\ REG_ENABLE \notin DOMAIN wire[1].writes
    /\ Field(remoteregs[REG_MONSELECT], 0, 3) = IIR_MON_OUT1
    /\ Field(remoteregs[REG_MONSELECT], 3, 3) = IIR_MON_IN2
    /\ Field(remoteregs[REG_ENABLE], 0, 4) # 0

---------------------------------------------------------------------------
(* Failed commits *)

\* a commit that has just failed at the transport
CommitFailed(r) == r.op = "commit" /\ r.outcome = "TransportError"

\* a successful commit directly after a failed one sends the write list the
\* failed one serialised
RetrySendsSame ==
    [][ (CommitFailed(ret) /\ ret'.op = "commit" /\ ret'.outcome = "ok") =>
            wire'[1].writes = wire[1].writes ]_vars

\* C12: a commit that fails at the transport leaves the pending write set
\* exactly as it was before the commit, and a successful commit that follows
\* it with no staging in between sends the write list the failed commit
\* serialised.
C12_FailedCommitKeepsPending ==
    [][ /\ CommitFailed(ret') => localregs' = localregs
        /\ (CommitFailed(ret) /\ ret'.op = "commit" /\ ret'.outcome = "ok") =>
              wire'[1].writes = wire[1].writes ]_vars

---------------------------------------------------------------------------
(* Frame scales *)

\* equality of two ratios with positive denominators
SameRatio(p, q) == p[1] * q[2] = q[1] * p[2]

\* the gain the source named s is to have: none 1, adc the channel's ADC
\* gain, a tenth of it under attenuation, in 1/3750, out the DAC gain times 16
NamedGain(s, fe) ==
    CASE s = "none" -> << 1, 1 >>
      [] s = "adc1" -> IF fe[1] THEN << 1, 10 * AdcCal(TRUE) >> ELSE << 1, AdcCal(FALSE) >>
      [] s = "adc2" -> IF fe[2] THEN << 1, 10 * AdcCal(TRUE) >> ELSE << 1, AdcCal(FALSE) >>
      [] s \in {"in1", "in2"} -> << 1, 3750 >>
      [] s \in {"out1", "out2"} -> << 16, DacCal >>

\* the scale a monitor showing source s is to have
NamedScale(s, fe, precision, deci) ==
    IF precision
    THEN << NamedGain(s, fe)[1], NamedGain(s, fe)[2] * deci >>
    ELSE NamedGain(s, fe)

\* C13: the frame scale of monitor a (b) is the gain of its selected source:
\* none 1, adc1/adc2 the ADC gain of that channel divided by 10 under
\* attenuation, in1/in2 1/3750, out1/out2 the DAC gain times 16, divided by
\* the decimation gain exactly in precision mode; with monitor a on out1 and
\* precision mode off a decoded sample is raw * gain_dac1 * 16.
C13_ScaleOfSelectedSource ==
    /\ cx.phase \in {"scaled", "decoded"} =>
          /\ SameRatio(cx.scales.scale_ch1, NamedScale(cx.a, cx.fe, cx.precision, cx.deci))
          /\ SameRatio(cx.scales.scale_ch2, NamedScale(cx.b, cx.fe, cx.precision, cx.deci))
    /\ (cx.phase = "decoded" /\ cx.a = "out1" /\ ~cx.precision) =>
          SameRatio(cx.channel_a, << cx.raw * 16, DacCal >>)

\* a nonzero sample decoded for monitor a on out1 outside precision mode,
\* monitor b on the attenuated ADC of channel 2
C13_Witness ==
    /\ cx.phase = "decoded"
    /\ cx.a = "out1" /\ cx.b = "adc2" /\ cx.fe[2] /\ ~cx.precision
    /\ cx.raw # 0
    /\ cx.channel_a = << cx.raw * 16, DacCal >>

\* in precision mode with a decimation gain above one the scale of monitor a
\* on in1 is the source gain divided by the decimation gain
C13_WitnessPrecision ==
    /\ cx.phase = "scaled" /\ cx.a = "in1" /\ cx.precision /\ cx.deci > 1
    /\ cx.scales.scale_ch1 = << 1, 3750 * cx.deci >>

---------------------------------------------------------------------------
(* Frames in flight *)

\* the name set_monitor knows a source code by
SourceName(code) == CHOOSE s \in DOMAIN MonSources : MonSources[s] = code

---------------------------------------------------------------------------
(* The caller's table *)

\* the caller's table as the caller reads it
CallerTable == Deref(cx.mem, cx.rows)

\* C15: set_filter does not alias the caller's table: when it has returned
\* or raised, every row and entry of the caller's table is as passed in; and
\* after the caller has written into its table in place, the stored table of
\* the channel is still the reshaped table passed in, the other channel's the
\* default, and a later upload packs exactly these stored tables.
C15_CallerTableNotAliased ==
    /\ cx.phase \in {"stored", "raised"} => CallerTable = Tables[cx.name]
    /\ cx.phase \in {"stored", "mutated", "packed"} =>
          /\ filter_ch[cx.ch] = Reshape(Tables[cx.name], RowObject(cx.name))
          /\ filter_ch[3 - cx.ch] = DefaultFilter
    /\ cx.phase = "packed" => cx.words = Payload(filter_ch)

\* the caller has changed the scale entry of a section row of the table it
\* passed, and a later upload has been packed
C15_Witness ==
    /\ cx.phase = "packed"
    /\ cx.name = "sections"
    /\ CallerTable[3][1] # Tables[cx.name][3][1]
    /\ filter_ch[cx.ch][2][1] = CoefOne

---------------------------------------------------------------------------
(* The scratch file *)

\* C16: the scratch file does not outlive the call: when set_filter has
\* returned or raised, on any path, '.data.dat' does not exist.
C16_ScratchRemoved ==
    ret.op = "set_filter" => ~scratch

---------------------------------------------------------------------------
(* The value check *)

\* the gain entry or some entry of a section row of t lies outside its range
SomeEntryOutside(t) ==
    \/ /\ Len(t) >= 1 /\ Len(t[1]) >= 1
       /\ (t[1][1] < -8000000 * CoefOne \/ t[1][1] >= 8000000 * CoefOne)
    \/ \E m \in 2 .. 5 : \E n \in 1 .. 7 :
          /\ m <= Len(t) /\ n <= Len(t[m])
          /\ (t[m][n] < -4 * CoefOne \/ t[m][n] >= 4 * CoefOne)

\* C17: set_filter rejects with a validation error every table whose gain
\* lies outside [-8e6, 8e6) or that has an entry of rows 1..4 outside
\* [-4.0, 4.0), and accepts every correctly shaped table whose entries all
\* lie inside the ranges.
C17_ValuesChecked ==
    (ret.op = "set_filter" /\ ArgsLegal(ret.args) /\ ret.args[3] # "None") =>
        /\ SomeEntryOutside(Tables[ret.args[3]]) => ret.outcome = "ValidationError"
        /\ (WellShaped(Tables[ret.args[3]]) /\ EntriesLegal(Tables[ret.args[3]])) =>
              ret.outcome \notin {"ValidationError", "IndexError"}

\* the same for tables whose section rows have six entries each
ValuesCheckedSixColumns ==
    (ret.op = "set_filter" /\ ArgsLegal(ret.args) /\ ret.args[3] # "None"
       /\ \A m \in 2 .. Len(Tables[ret.args[3]]) : Len(Tables[ret.args[3]][m]) <= 6) =>
        /\ SomeEntryOutside(Tables[ret.args[3]]) => ret.outcome = "ValidationError"
        /\ (WellShaped(Tables[ret.args[3]]) /\ EntriesLegal(Tables[ret.args[3]])) =>
              ret.outcome \notin {"ValidationError", "IndexError"}

---------------------------------------------------------------------------
(* Host tables and device coefficient memory *)

\* C18: whenever nothing is pending after set_defaults, set_filter and
\* commit calls none of which failed at the transport, the stored tables
\* filter_ch1 and filter_ch2 are the coefficients last uploaded to the
\* device's coefficient memory.
C18_TablesMatchDevice ==
    (localregs = EmptyRegs /\ coeffmem # << >>) => coeffmem = Payload(filter_ch)

---------------------------------------------------------------------------
(* The other channel *)

\* the payload words w carry table f for channel c (1 or 2): every word of
\* the channel is the scaled entry of f at its row and component
CarriesTable(w, c, f) ==
    \A y \in 0 .. 5 : \A x \in 0 .. 3 :
        w[PackIndex(c - 1, y, x) + 1] = CoeffWord(y, f[x + 1][y + 1])

\* C19: set_filter(ch, rate, coeffs) changes the stored table of channel ch
\* only; the payload it uploads carries for the other channel the table that
\* channel had stored; with coeffs None neither stored table changes and the
\* payload carries both as stored.
C19_OtherChannelKept ==
    [][ (ret'.op = "set_filter" /\ ret'.seq # ret.seq /\ ArgsLegal(ret'.args)) =>
            /\ filter_ch'[3 - ret'.args[1]] = filter_ch[3 - ret'.args[1]]
            /\ ret'.args[3] = "None" => filter_ch' = filter_ch
            /\ \A i \in 1 .. Len(wire') :
                  wire'[i].kind = "file" =>
                     /\ CarriesTable(wire'[i].words, 3 - ret'.args[1],
                                     filter_ch[3 - ret'.args[1]])
                     /\ ret'.args[3] = "None" =>
                           CarriesTable(wire'[i].words, ret'.args[1], filter_ch[ret'.args[1]])
      ]_vars

\* the same for calls that leave six-entry rows in both stored tables
OtherChannelKeptSixColumns ==
    [][ (ret'.op = "set_filter" /\ ret'.seq # ret.seq /\ ArgsLegal(ret'.args)
           /\ \A c \in 1 .. 2 : \A x \in 1 .. 4 : Len(filter_ch'[c][x]) = 6) =>
            /\ filter_ch'[3 - ret'.args[1]] = filter_ch[3 - ret'.args[1]]
            /\ ret'.args[3] = "None" => filter_ch' = filter_ch
            /\ \A i \in 1 .. Len(wire') :
                  wire'[i].kind = "file" =>
                     /\ CarriesTable(wire'[i].words, 3 - ret'.args[1],
                                     filter_ch[3 - ret'.args[1]])
                     /\ ret'.args[3] = "None" =>
                           CarriesTable(wire'[i].words, ret'.args[1], filter_ch[ret'.args[1]])
      ]_vars

---------------------------------------------------------------------------
(* Channel enables *)

\* the input and output enable attributes of channel c
EnablesOf(c) == IF c = 1 THEN {"input_en1", "output_en1"} ELSE {"input_en2", "output_en2"}

\* the step leaves the value the instrument reads for attribute a as it was
Kept(a) == Get(localregs', remoteregs', a) = Get(localregs, remoteregs, a)

\* C20: a successful set_filter(ch, ...) leaves the input and the output of
\* channel ch enabled, on the device too, and the enables of the other channel
\* as they were; a call that fails at the transport before or during the
\* upload or while releasing the access flag changes no enable.
C20_EnablesOfChannel ==
    [][ (ret'.op = "set_filter" /\ ret'.seq # ret.seq /\ ArgsLegal(ret'.args)) =>
            /\ ret'.outcome = "ok" =>
                  /\ \A a \in EnablesOf(ret'.args[1]) :
                        /\ Get(localregs', remoteregs', a) = 1
                        /\ Get(EmptyRegs, remoteregs', a) = 1
                  /\ \A a \in EnablesOf(3 - ret'.args[1]) : Kept(a)
            /\ (ret'.outcome = "TransportError" /\ ~(Len(wire') = 4 /\ wire'[3].ok)) =>
                  \A a \in EnableAttrs : Kept(a)
      ]_vars

\* a successful call on channel 1 that found both outputs disabled: output 1
\* is now enabled on the device, output 2 is not
C20_Witness ==
    /\ ret.op = "set_filter" /\ ret.outcome = "ok" /\ ret.args[1] = 1
    /\ ret.seq = 2
    /\ Get(EmptyRegs, remoteregs, "output_en1") = 1
    /\ Get(EmptyRegs, remoteregs, "output_en2") = 0

\* an upload has failed and output 1, disabled before the call, still is
C20_WitnessFailure ==
    /\ ret.op = "set_filter" /\ ret.outcome = "TransportError" /\ ret.args[1] = 1
    /\ ret.seq = 2
    /\ \E i \in FileEvents : ~wire[i].ok
    /\ Get(localregs, remoteregs, "output_en1") = 0

---------------------------------------------------------------------------
(* Clean after set_filter *)

\* the registers a set_filter call on channel c stages itself or has the
\* commit recompute
TouchedByFilter(c) ==
    { REG_MMAP_ACCESS, REG_ENABLE, IF c = 1 THEN REG_DECFILTER1 ELSE REG_DECFILTER2 }
        \cup { Attr[a].reg : a \in ScaledAttrs }

\* C21: when set_filter returns without raising nothing is pending: the
\* decimation factor and the enables it staged are on the device, and every
\* register left pending by earlier setters has been written as staged.
C21_CleanAfterSetFilter ==
    [][ (ret'.op = "set_filter" /\ ret'.seq # ret.seq /\ ret'.outcome = "ok") =>
            /\ localregs' = EmptyRegs
            /\ Get(EmptyRegs, remoteregs',
                   IF ret'.args[1] = 1 THEN "dec_factor1" ELSE "dec_factor2")
                  = (IF ret'.args[2] = "high" THEN 8 ELSE 1024)
            /\ \A a \in EnablesOf(ret'.args[1]) : Get(EmptyRegs, remoteregs', a) = 1
            /\ \A r \in DOMAIN localregs \ TouchedByFilter(ret'.args[1]) :
                  remoteregs'[r] = localregs[r]
      ]_vars

\* the first call after set_defaults was a set_filter that returned: the
\* relay words set_defaults had left pending are on the device, and nothing
\* is pending
C21_Witness ==
    /\ ret.op = "set_filter" /\ ret.outcome = "ok" /\ ret.seq = 2
    /\ localregs = EmptyRegs
    /\ Get(EmptyRegs, remoteregs, "relays_ch1") = RelayWord(TRUE, FALSE, FALSE)
    /\ Get(EmptyRegs, remoteregs, "dec_factor1") = 8

---------------------------------------------------------------------------
(* Two instances *)

\* instance i has passed its upload
HasSent(i) == cx.pc[i] \in {"mmap_off", "remove", "done"} \/ cx.outcome[i] = "OSError"

\* C22: when the set_filter calls of two instances interleave, each uploads
\* exactly the payload packed from its own tables and neither raises because
\* of the other.
C22_InstancesIndependent ==
    cx.phase = "two" =>
        \A i \in Instances :
            /\ cx.outcome[i] = "ok"
            /\ HasSent(i) => cx.sent[i] = Payload(cx.f[i])

\* a call that runs while the other instance has not begun uploads its own
\* payload and does not raise
AloneUploadsOwn ==
    cx.phase = "two" =>
        \A i \in Instances :
            cx.pc[3 - i] = "write" =>
                /\ cx.outcome[i] = "ok"
                /\ HasSent(i) => cx.sent[i] = Payload(cx.f[i])

---------------------------------------------------------------------------
(* disable_output *)

\* the output enable attribute of channel c
OutputEn(c) == IF c = 1 THEN "output_en1" ELSE "output_en2"

\* disable_output(1) and disable_output(2) clear the output enable of their
\* channel and leave the other three enables as they were
DisableOutputValidChannel ==
    [][ (ret'.op = "disable_output" /\ ret'.seq # ret.seq /\ ret'.args[1] \in {1, 2}) =>
            /\ ret'.outcome = "ok"
            /\ Get(localregs', remoteregs', OutputEn(ret'.args[1])) = 0
            /\ \A a \in EnableAttrs \ { OutputEn(ret'.args[1]) } : Kept(a) ]_vars

\* C23: disable_output(ch) with ch = 1 or 2 clears only the output enable of
\* channel ch; with any other ch it fails with a validation error and changes
\* no enable.
C23_DisableOutputChecked ==
    [][ (ret'.op = "disable_output" /\ ret'.seq # ret.seq) =>
            IF ret'.args[1] \in {1, 2}
            THEN /\ ret'.outcome = "ok"
                 /\ Get(localregs', remoteregs', OutputEn(ret'.args[1])) = 0
                 /\ \A a \in EnableAttrs \ { OutputEn(ret'.args[1]) } : Kept(a)
            ELSE /\ ret'.outcome = "ValidationError"
                 /\ \A a \in EnableAttrs : Kept(a) ]_vars

---------------------------------------------------------------------------
(* set_gains_offsets *)

\* C24: set_gains_offsets is all-or-nothing: with ch outside {1, 2}, a gain
\* outside [-100, 100], input_offset outside [-1, 1] or output_offset outside
\* [-2, 2] it raises and no stored value changes; otherwise it sets the four
\* values of channel ch, omitted arguments being gain 1.0 and offset 0, and
\* leaves the other channel's four values as they were.
C24_GainsSetter ==
    [][ (ret'.op = "set_gains_offsets" /\ ret'.seq # ret.seq)
          => LET ch == ret'.args[1]
                 ig == ret'.args[2]
                 og == ret'.args[3]
                 io == ret'.args[4]
                 oo == ret'.args[5]
             IN  IF /\ ch \in {1, 2}
                    /\ ig >= -100 * UserOne /\ ig <= 100 * UserOne
                    /\ og >= -100 * UserOne /\ og <= 100 * UserOne
                    /\ io >= -UserOne /\ io <= UserOne
                    /\ oo >= -2 * UserOne /\ oo <= 2 * UserOne
                 THEN /\ ret'.outcome = "ok"
                      /\ cfg' = IF ch = 1
                                THEN [cfg EXCEPT !.input_scale1 = ig, !.output_scale1 = og,
                                                 !.input_offset1 = io, !.output_offset1 = oo]
                                ELSE [cfg EXCEPT !.input_scale2 = ig, !.output_scale2 = og,
                                                 !.input_offset2 = io, !.output_offset2 = oo]
                 ELSE /\ ret'.outcome = "ValidationError"
                      /\ cfg' = cfg ]_vars

\* a call on channel 1 refused for its output offset alone, after a call that
\* had set channel 2: channel 1 keeps its defaults, channel 2 what was set
C24_Witness ==
    /\ ret.op = "set_gains_offsets" /\ ret.outcome = "ValidationError"
    /\ ret.args = << 1, 100 * UserOne, -100 * UserOne, UserOne, -2 * UserOne - 1 >>
    /\ cfg.input_scale1 = UserOne /\ cfg.output_offset1 = 0
    /\ cfg.input_scale2 = 100 * UserOne /\ cfg.output_offset2 = -2 * UserOne

\* a call with omitted arguments on channel 2 has put gain 1.0 and offset 0
\* there while channel 1 keeps the values set earlier
C24_WitnessOmitted ==
    /\ ret.op = "set_gains_offsets" /\ ret.outcome = "ok" /\ ret.seq > 2
    /\ ret.args = << 2, UserOne, UserOne, 0, 0 >>
    /\ cfg.input_scale2 = UserOne /\ cfg.input_offset2 = 0
    /\ cfg.input_scale1 = 100 * UserOne /\ cfg.input_offset1 = UserOne

---------------------------------------------------------------------------
(* set_defaults *)

\* the host configuration (local, remote, c, f) is the default one: inputs
\* enabled, outputs disabled, identity mixing, gains 1.0, offsets 0, all-pass
\* tables, frontends 50 Ohm, unattenuated, DC coupled
IsDefaultConfig(local, remote, c, f) ==
    /\ Get(local, remote, "input_en1") = 1 /\ Get(local, remote, "input_en2") = 1
    /\ Get(local, remote, "output_en1") = 0 /\ Get(local, remote, "output_en2") = 0
    /\ c.matrixscale_ch1_ch1 = UserOne /\ c.matrixscale_ch1_ch2 = 0
    /\ c.matrixscale_ch2_ch1 = 0 /\ c.matrixscale_ch2_ch2 = UserOne
    /\ \A a \in {"input_scale1", "input_scale2", "output_scale1", "output_scale2"} :
          c[a] = UserOne
    /\ \A a \in {"input_offset1", "input_offset2", "output_offset1", "output_offset2"} :
          c[a] = 0
    /\ \A k \in 1 .. 2 :
          /\ Len(f[k]) = 4
          /\ \A x \in 1 .. 4 : f[k][x] = << CoefOne, CoefOne, 0, 0, 0, 0 >>
    /\ \A a \in {"relays_ch1", "relays_ch2"} :
          /\ Field(Get(local, remote, a), 0, 1) = 1   \* DC coupling
          /\ Field(Get(local, remote, a), 1, 1) = 1   \* 50 Ohm
          /\ Field(Get(local, remote, a), 2, 1) = 0   \* no attenuation

\* C25: after set_defaults, from any prior state, the host configuration is
\* the fixed default; and set_defaults is idempotent: called again at once it
\* changes nothing the host holds.
C25_DefaultsFixed ==
    [][ (ret'.op = "set_defaults" /\ ret'.seq # ret.seq) =>
            /\ IsDefaultConfig(localregs', remoteregs', cfg', filter_ch')
            /\ ret.op = "set_defaults" =>
                  /\ cfg' = cfg /\ filter_ch' = filter_ch
                  /\ localregs' = localregs /\ remoteregs' = remoteregs
      ]_vars

\* set_defaults called on an instrument whose device runs with channel 1
\* attenuated and output 2 enabled
C25_Witness ==
    /\ ret.op = "set_defaults" /\ ret.seq > 1
    /\ Atten(EmptyRegs, remoteregs, 1)
    /\ Get(EmptyRegs, remoteregs, "output_en2") = 1
    /\ ~Atten(localregs, remoteregs, 1)
    /\ Get(localregs, remoteregs, "output_en2") = 0

---------------------------------------------------------------------------
(* The error of the value check *)

\* an out-of-range entry is refused with a validation error
OutsideRefused ==
    (cx.phase = "checked" /\ ~EntryInRange(cx.table, cx.m, cx.n)) =>
        cx.outcome = "ValidationError"

\* the error for an out-of-range gain names entry m = 0, n = 0
GainErrorNamesGain ==
    (cx.phase = "checked" /\ cx.outcome = "ValidationError" /\ cx.m = 0) =>
        cx.named = << 0, 0 >>

\* C26: the validation error of set_filter for an out-of-range entry in row m
\* (1..4), column n (0..5) names that m and n.
C26_ErrorNamesEntry ==
    (cx.phase = "checked" /\ cx.outcome = "ValidationError" /\ cx.m >= 1) =>
        cx.named = << cx.m, cx.n >>

---------------------------------------------------------------------------
(* Monitor source fields *)

\* the value the instrument reads for both monitor source fields, and the
\* value the device holds, is the initial one or a source code 1..6, and the
\* gain lookup of _calculate_scales has an entry for it
MonFieldsKnown(local, remote) ==
    \A a \in {"mon1_source", "mon2_source"} :
        /\ Get(local, remote, a) \in { Get(EmptyRegs, [ r \in Regs |-> 0 ], a) } \cup (1 .. 6)
        /\ Get(local, remote, a) \in GainKeys
        /\ Get(EmptyRegs, remote, a) \in GainKeys

\* C27: after any sequence of set_monitor calls, valid or rejected, both
\* monitor source fields hold their initial value or a source code 1..6, so
\* the gain lookup of _calculate_scales finds an entry; a call with an invalid
\* channel or source raises and changes neither field; a valid call changes
\* only the field of the named monitor channel.
C27_MonitorFieldsKnown ==
    [][ /\ MonFieldsKnown(localregs', remoteregs')
        /\ (ret'.op = "set_monitor" /\ ret'.seq # ret.seq) =>
              IF ret'.args[1] \in {"a", "b"}
                   /\ ret'.args[2] \in {"adc1", "in1", "out1", "adc2", "in2", "out2"}
              THEN /\ ret'.outcome = "ok"
                   /\ Kept(IF ret'.args[1] = "a" THEN "mon2_source" ELSE "mon1_source")
                   /\ Get(localregs', remoteregs',
                          IF ret'.args[1] = "a" THEN "mon1_source" ELSE "mon2_source") \in 1 .. 6
              ELSE /\ ret'.outcome = "ValidationError"
                   /\ Kept("mon1_source") /\ Kept("mon2_source")
      ]_vars

\* a call naming monitor channel c has just been refused, after calls that
\* put adc2 on monitor a and out2 on monitor b
C27_Witness ==
    /\ ret.op = "set_monitor" /\ ret.outcome = "ValidationError"
    /\ ret.args[1] = "c" /\ ret.args[2] = "in1"
    /\ Get(localregs, remoteregs, "mon1_source") = IIR_MON_ADC2
    /\ Get(localregs, remoteregs, "mon2_source") = IIR_MON_OUT2

---------------------------------------------------------------------------
(* Accepted gains and offsets fit their registers *)

\* C28: for every input gain in [-100, 100] the encoded input scale lies in
\* the signed 18-bit range, and for every input offset in [-1.0, 1.0] and
\* either attenuation state the encoded input offset lies in the signed
\* 14-bit range: the field's range check passes.
C28_AcceptedValuesFit ==
    cx.phase = "encoded" =>
        /\ cx.fits
        /\ cx.attr \in {"input_scale1", "input_scale2"} =>
              (cx.raw >= -(2 ^ 17) /\ cx.raw < 2 ^ 17)
        /\ cx.attr \in {"input_offset1", "input_offset2"} =>
              (cx.raw >= -(2 ^ 13) /\ cx.raw < 2 ^ 13)

\* the largest input offset, 1.0 V, encoded for the unattenuated channel 1:
\* 7500 of the 8191 the field can hold
C28_Witness ==
    /\ cx.phase = "encoded"
    /\ cx.attr = "input_offset1" /\ cx.v = UserOne /\ ~cx.fe[1]
    /\ cx.raw = 7500 /\ cx.fits

\* the largest input gain, 100, encoded: 51200 of the 131071 the field holds
C28_WitnessScale ==
    /\ cx.phase = "encoded"
    /\ cx.attr = "input_scale2" /\ cx.v = 100 * UserOne
    /\ cx.raw = 51200 /\ cx.fits

\* every commit finds the remembered input gains and offsets encodable under
\* the frontend state it is made in
CommitFindsGainsEncodable ==
    ret.op = "commit" =>
        \A a \in IndependentAttrs :
            \A fe \in { Frontend(localregs, remoteregs), Frontend(EmptyRegs, remoteregs) } :
                EncodeOk(a, cfg[a], fe)

====
